---- MODULE Spec2Model ----
(***************************************************************************)
(* Send workflow of the DICOM bulk importer (SendWorkflow.run_send) as a   *)
(* state machine: the durable run artifacts (send_results_by_file.csv,     *)
(* send_summary.csv, the send checkpoint JSON, events.csv), the main stage *)
(* driver, the child transfer process and the cancel watcher thread.       *)
(*                                                                         *)
(* The child process is the environment.  Its output for a sub-chunk is    *)
(* abstracted to the lines that carry a store response for a file          *)
(* ("RSP", the line on which the real-time pass writes a row) followed by  *)
(* one trailing informational line ("INFO", e.g. the association release). *)
(* Whether a file is answered and with which status is fixed per file in   *)
(* `outcome` for a whole behaviour, so that "the counts an uninterrupted   *)
(* Send would produce" is well defined.                                    *)
(***************************************************************************)
EXTENDS Integers, Sequences, FiniteSets, TLC

(* ------------------------------ bounds --------------------------------- *)
NFiles == 2
MaxBatch == 2
MaxInvocations == 2

(* ------------------------------ the run -------------------------------- *)
\* manifest_files.csv: the selected files, in manifest order 1..NFiles
Files == 1..NFiles
selected == [i \in 1..NFiles |-> i]
total_items == Len(selected)

\* folder of a manifest row: the first folder holds one file, the following
\* ones two files each, in manifest order
FolderOf(f) == (f \div 2) + 1
folder_keys == {FolderOf(f) : f \in Files}

SeqOfSet(S) ==
  LET RECURSIVE Build(_)
      Build(T) == IF T = {} THEN <<>>
                  ELSE LET m == CHOOSE x \in T : \A y \in T : x <= y
                       IN <<m>> \o Build(T \ {m})
  IN Build(S)

\* folder_to_files: selected files of a folder, in manifest order
folder_to_files(d) == SelectSeq(selected, LAMBDA f : FolderOf(f) = d)

\* manifest_folders.csv is written by Analyze in sorted folder order
ordered_folders == SeqOfSet(folder_keys)

Min(a, b) == IF a <= b THEN a ELSE b
Max(a, b) == IF a >= b THEN a ELSE b

RECURSIVE Flatten(_)
Flatten(ss) == IF ss = <<>> THEN <<>> ELSE Head(ss) \o Flatten(Tail(ss))

Range(s) == {s[i] : i \in 1..Len(s)}

(* ------------------------------ config --------------------------------- *)
Configs ==
  {[toolkit |-> "dcmtk", dcm4che_send_mode |-> "MANIFEST_FILES",
    dcm4che_iuid_update_mode |-> "REALTIME"]}
  \cup [toolkit : {"dcm4che"}, dcm4che_send_mode : {"MANIFEST_FILES", "FOLDERS"},
        dcm4che_iuid_update_mode : {"REALTIME", "CHUNK_END"}]

SendStatuses == {"SENT_OK", "SEND_FAIL", "SENT_UNKNOWN"}
warning_statuses == {"NON_DICOM", "UNSUPPORTED_DICOM_OBJECT", "SENT_UNKNOWN"}

VARIABLES
  cfg,              \* AppConfig: toolkit, dcm4che_send_mode, dcm4che_iuid_update_mode
  outcome,          \* environment: what the archive answers for each file
  results,          \* send_results_by_file.csv (rows in file order)
  send_summary,     \* send_summary.csv
  checkpoint,       \* send_checkpoint_<driver/mode>.json
  events_skip,      \* events.csv: number of RUN_SEND_SKIP_ALREADY_COMPLETED rows
  cancel_event,     \* threading.Event shared with the UI
  pc,               \* position of the main stage driver inside run_send
  inv,              \* number of run_send invocations started so far
  hist,             \* per invocation: was it a resume, how did it end
  is_resuming,
  prepared_chunks,  \* list of [inputs, files]
  chunk_pos,        \* index of the current sub-chunk in prepared_chunks
  chunk_index,      \* technical chunk number written to chunk_no
  item_cursor,
  unit_cursor,
  counters,         \* [sent_ok, warned, failed]
  interrupted,
  lines,            \* stdout lines collected for the current sub-chunk
  line_pos,         \* lines taken from the child's pipe so far
  written,          \* realtime_written_files / dcmtk_written_files
  exit_code,
  row_file,         \* file whose row is written and whose checkpoint is due
  post_pos,         \* position of the post-stream pass in batch_files
  child,            \* "none" | "running" | "exited" | "killed"
  watcher,          \* "none" | "poll" | "kill_done" | "done"
  cancel_watcher_stop,
  ckpt_written,     \* a checkpoint was written by this invocation
  chunk_start,      \* item_cursor and counters when the sub-chunk was spawned
  cancel_observed   \* where this invocation read cancel_event as set:
                    \* "" | "boundary" (top of the chunk loop) | "chunk"
                    \* (inside a sub-chunk: the drain loop or the watcher)

send_vars == <<cfg, outcome, results, send_summary, checkpoint, events_skip,
          cancel_event, pc, inv, hist, is_resuming, prepared_chunks, chunk_pos,
          chunk_index, item_cursor, unit_cursor, counters, interrupted, lines,
          line_pos, written, exit_code, row_file, post_pos, child, watcher,
          cancel_watcher_stop, ckpt_written, chunk_start, cancel_observed>>

\* state of the other operations of the program, each parked while Send runs
VARIABLES
  cls,              \* one ToolF sub-chunk: files, child output, rows written
  val,              \* one Validate call: send rows, REST lookups, reconciliation
  rid,              \* one run id going through _with_toolkit_suffix
  art,              \* one artifact name: its two files and the resolver's answers
  req,              \* one Analyze or Send request and the run directory it meets
  shelf,            \* the checkpoint files of the other drivers and modes
  wf,               \* one workflow call: its loop, the cancel flag, how it ends
  an,               \* the Analyze scan
  spl,              \* the command-length splitter
  hc,               \* the ToolF health-check of a Send
  tk,               \* the ToolT classification of one sub-chunk
  est,              \* Analyze's estimate of the largest safe batch (batch_max_cmd)
  dr,               \* the drain of the sub-chunks of one Send: child, watcher, raw log
  grp,              \* Validate's grouping of the send rows by IUID, rows as the send file holds them
  ra                \* a second Analyze on a run that was already sent

Parked == [pc |-> "off"]
side_vars == <<cls, val, rid, art, req, shelf, wf, an, spl, hc, tk, est, dr, grp, ra>>
SideParked ==
  /\ cls = Parked
  /\ val = Parked
  /\ rid = Parked
  /\ art = Parked
  /\ req = Parked
  /\ shelf = Parked
  /\ wf = Parked
  /\ an = Parked
  /\ spl = Parked
  /\ hc = Parked
  /\ tk = Parked
  /\ est = Parked
  /\ dr = Parked
  /\ grp = Parked
  /\ ra = Parked
cls_frame == <<send_vars, val, rid, art, req, shelf, wf, an, spl, hc, tk, est, dr, grp, ra>>
val_frame == <<send_vars, cls, rid, art, req, shelf, wf, an, spl, hc, tk, est, dr, grp, ra>>
rid_frame == <<send_vars, cls, val, art, req, shelf, wf, an, spl, hc, tk, est, dr, grp, ra>>
art_frame == <<send_vars, cls, val, rid, req, shelf, wf, an, spl, hc, tk, est, dr, grp, ra>>
req_frame == <<send_vars, cls, val, rid, art, shelf, wf, an, spl, hc, tk, est, dr, grp, ra>>
wf_frame == <<send_vars, cls, val, rid, art, req, shelf, an, spl, hc, tk, est, dr, grp, ra>>
an_frame == <<send_vars, cls, val, rid, art, req, shelf, wf, spl, hc, tk, est, dr, grp, ra>>
spl_frame == <<send_vars, cls, val, rid, art, req, shelf, wf, an, hc, tk, est, dr, grp, ra>>
hc_frame == <<send_vars, cls, val, rid, art, req, shelf, wf, an, spl, tk, est, dr, grp, ra>>
tk_frame == <<send_vars, cls, val, rid, art, req, shelf, wf, an, spl, hc, est, dr, grp, ra>>
est_frame == <<send_vars, cls, val, rid, art, req, shelf, wf, an, spl, hc, tk, dr, grp, ra>>
dr_frame == <<send_vars, cls, val, rid, art, req, shelf, wf, an, spl, hc, tk, est, grp, ra>>
grp_frame == <<send_vars, cls, val, rid, art, req, shelf, wf, an, spl, hc, tk, est, dr, ra>>
ra_frame == <<send_vars, cls, val, rid, art, req, shelf, wf, an, spl, hc, tk, est, dr, grp>>

vars == <<send_vars, side_vars>>

disk == <<results, send_summary, checkpoint, events_skip>>
chunk_vars == <<lines, line_pos, written, exit_code, row_file, post_pos>>
plan_vars == <<is_resuming, prepared_chunks, chunk_pos, chunk_index>>

send_unit_is_file_mode ==
  ~(cfg.toolkit = "dcm4che" /\ cfg.dcm4che_send_mode = "FOLDERS")

realtime_iuid_enabled ==
  cfg.toolkit = "dcm4che" /\ cfg.dcm4che_iuid_update_mode = "REALTIME"

dcmtk_realtime_enabled == cfg.toolkit = "dcmtk"

\* dcm4che_exec_mode as run_send sets it: "N/A", or "JAVA_DIRECT" once the Java
\* executable is resolved (a missing Java raises before any planning); no
\* assignment gives it the value "CMD_BAT"
dcm4che_exec_mode == IF cfg.toolkit = "dcm4che" THEN "JAVA_DIRECT" ELSE "N/A"

NoCheckpoint == [exists |-> FALSE, done_units |-> 0, done_files |-> 0,
                 checkpoint_mode |-> "", checkpoint_reason |-> ""]

ZeroCounters == [sent_ok |-> 0, warned |-> 0, failed |-> 0]

(* --------------------------- pure helpers ------------------------------ *)
\* raw_chunks = [units[i : i + batch_size] for i in range(start, len, batch_size)]
RECURSIVE Slices(_, _)
Slices(units, n) ==
  IF units = <<>> THEN <<>>
  ELSE <<SubSeq(units, 1, Min(n, Len(units)))>>
       \o Slices(SubSeq(units, Min(n, Len(units)) + 1, Len(units)), n)

DropFirst(units, k) == IF k >= Len(units) THEN <<>> ELSE SubSeq(units, k + 1, Len(units))

processed_files_from_results(rows) == {rows[i].file_path : i \in 1..Len(rows)}

RECURSIVE MaxChunkNo(_)
MaxChunkNo(rows) ==
  IF rows = <<>> THEN 0 ELSE Max(Head(rows).chunk_no, MaxChunkNo(Tail(rows)))

\* latest_by_file[fp] = row: the last row of a selected file wins
HasRow(rows, f) == \E i \in 1..Len(rows) : rows[i].file_path = f
LatestRow(rows, f) ==
  rows[CHOOSE i \in 1..Len(rows) :
         /\ rows[i].file_path = f
         /\ \A j \in 1..Len(rows) : rows[j].file_path = f => j <= i]

AggregateFromCounters(rows, mem) == mem
\* aggregated_sent_ok / aggregated_warn / aggregated_fail re-read from the results
AggregateResults(rows, mem) ==
  LET fs == {f \in Range(selected) : HasRow(rows, f)}
      st(f) == LatestRow(rows, f).send_status
  IN [sent_ok |-> Cardinality({f \in fs : st(f) = "SENT_OK"}),
      warned  |-> Cardinality({f \in fs : st(f) # "SENT_OK" /\ st(f) \in warning_statuses}),
      failed  |-> Cardinality({f \in fs : st(f) # "SENT_OK" /\ st(f) \notin warning_statuses})]

FinalStatus(intr, agg) ==
  IF intr THEN "INTERRUPTED"
  ELSE IF agg.failed = 0 /\ agg.warned = 0 THEN "PASS"
  ELSE IF agg.failed = 0 THEN "PASS_WITH_WARNINGS"
  ELSE "FAIL"

AlreadyStatusIgnoringSummary(prev_status) == "ALREADY_SENT_PASS"
AlreadyStatus(prev_status) ==
  IF prev_status = "PASS" THEN "ALREADY_SENT_PASS" ELSE "ALREADY_SENT"

\* the child's stdout for a sub-chunk, as far as the classifiers use it
Answered(f) == outcome[f] \in {"SENT_OK", "SEND_FAIL"}
ChildOutput(files) ==
  LET rsp == SelectSeq(files, Answered)
  IN [i \in 1..Len(rsp) |-> [kind |-> "RSP", file |-> rsp[i], status |-> outcome[rsp[i]]]]
     \o <<[kind |-> "INFO", file |-> 0, status |-> ""]>>

(* ------------------------------- Init ---------------------------------- *)
SendInit ==
  /\ cfg \in Configs
  /\ outcome \in [Files -> SendStatuses]
  /\ results = <<>>
  /\ send_summary = <<>>
  /\ checkpoint = NoCheckpoint
  /\ events_skip = 0
  /\ cancel_event = FALSE
  /\ pc = "idle"
  /\ inv = 0
  /\ hist = <<>>
  /\ is_resuming = FALSE
  /\ prepared_chunks = <<>>
  /\ chunk_pos = 0
  /\ chunk_index = 0
  /\ item_cursor = 0
  /\ unit_cursor = 0
  /\ counters = ZeroCounters
  /\ interrupted = FALSE
  /\ lines = <<>>
  /\ line_pos = 0
  /\ written = {}
  /\ exit_code = -1
  /\ row_file = 0
  /\ post_pos = 1
  /\ child = "none"
  /\ watcher = "none"
  /\ cancel_watcher_stop = FALSE
  /\ ckpt_written = FALSE
  /\ chunk_start = [item_cursor |-> 0, counters |-> ZeroCounters]
  /\ cancel_observed = ""

Init == SendInit /\ SideParked

(* --------------------------- run_send: entry --------------------------- *)
\* checkpoint as loaded at entry (absent file: zero; negatives clamped)
LoadedDoneUnits == IF checkpoint.exists THEN Max(checkpoint.done_units, 0) ELSE 0
LoadedDoneFiles == IF checkpoint.exists THEN Max(checkpoint.done_files, 0) ELSE 0

done_files_from_results ==
  Cardinality({f \in Range(selected) : f \in processed_files_from_results(results)})

\* done_files after the cross-check against the results file
EntryDoneFiles ==
  Min(IF send_unit_is_file_mode /\ done_files_from_results > LoadedDoneFiles
        THEN done_files_from_results ELSE LoadedDoneFiles,
      total_items)

EntryIsResuming ==
  (LoadedDoneUnits > 0) \/ (send_unit_is_file_mode /\ EntryDoneFiles > 0)

units_total == IF send_unit_is_file_mode THEN total_items ELSE Len(ordered_folders)

PendingAllSelected(rows) == selected
\* pending_selected: selected files without a row, in manifest order
pending_selected(rows) ==
  SelectSeq(selected, LAMBDA f : f \notin processed_files_from_results(rows))

raw_chunks(bs) ==
  IF send_unit_is_file_mode
    THEN Slices(pending_selected(results), bs)
    ELSE Slices(DropFirst(ordered_folders, LoadedDoneUnits), bs)

is_already_completed(bs) ==
  IF send_unit_is_file_mode THEN raw_chunks(bs) = <<>>
  ELSE units_total > 0 /\ LoadedDoneUnits >= units_total

\* prepared_chunks: JAVA_DIRECT and dcmtk never split a raw chunk
PrepareChunks(raw) ==
  [i \in 1..Len(raw) |->
     [inputs |-> raw[i],
      files  |-> IF send_unit_is_file_mode THEN raw[i]
                 ELSE Flatten([k \in 1..Len(raw[i]) |-> folder_to_files(raw[i][k])])]]

prev_status ==
  IF send_summary = <<>> THEN "" ELSE send_summary[Len(send_summary)].status

Returned(resuming, status, cancel) ==
  /\ hist' = Append(hist, [resuming |-> resuming, status |-> status,
                           cancel |-> cancel])
  /\ pc' = "idle"

ResetChunk ==
  /\ lines' = <<>>
  /\ line_pos' = 0
  /\ written' = {}
  /\ exit_code' = -1
  /\ row_file' = 0
  /\ post_pos' = 1

ResetMemory ==
  /\ prepared_chunks' = <<>>
  /\ chunk_pos' = 0
  /\ chunk_index' = 0
  /\ item_cursor' = 0
  /\ unit_cursor' = 0
  /\ counters' = ZeroCounters
  /\ interrupted' = FALSE
  /\ ResetChunk
  /\ child' = "none"
  /\ watcher' = "none"
  /\ cancel_watcher_stop' = FALSE
  /\ chunk_start' = [item_cursor |-> 0, counters |-> ZeroCounters]

\* run_send up to the chunk loop: load checkpoint, cross-check with results,
\* fresh-start cleanup, planning, already-completed skip.
StartSend(bs) ==
  /\ pc = "idle"
  /\ inv < MaxInvocations
  /\ inv' = inv + 1
  /\ cancel_event' = FALSE        \* the UI clears the flag before it starts the worker
  /\ cancel_observed' = ""
  /\ ckpt_written' = FALSE
  /\ is_resuming' = EntryIsResuming
  /\ UNCHANGED <<cfg, outcome, checkpoint>>
  /\ IF is_already_completed(bs)
       THEN /\ events_skip' = events_skip + 1
            /\ UNCHANGED <<results, send_summary>>
            /\ ResetMemory
            /\ Returned(EntryIsResuming, AlreadyStatus(prev_status), "")
       ELSE /\ results' = IF EntryIsResuming THEN results ELSE <<>>
            /\ send_summary' = IF EntryIsResuming THEN send_summary ELSE <<>>
            /\ prepared_chunks' = PrepareChunks(raw_chunks(bs))
            /\ chunk_pos' = 1
            /\ chunk_index' = IF EntryIsResuming THEN MaxChunkNo(results) + 1 ELSE 1
            /\ item_cursor' = EntryDoneFiles
            /\ unit_cursor' = LoadedDoneUnits
            /\ counters' = ZeroCounters
            /\ interrupted' = FALSE
            /\ ResetChunk
            /\ child' = "none"
            /\ watcher' = "none"
            /\ cancel_watcher_stop' = FALSE
            /\ chunk_start' = [item_cursor |-> 0, counters |-> ZeroCounters]
            /\ pc' = "loop"
            /\ UNCHANGED <<events_skip, hist>>
  /\ UNCHANGED side_vars

\* _cancel_current_job: the user sets the flag while the worker is busy
RequestCancel ==
  /\ pc # "idle"
  /\ ~cancel_event
  /\ cancel_event' = TRUE
  /\ UNCHANGED <<cfg, outcome, disk, pc, inv, hist, plan_vars, item_cursor,
                 unit_cursor, counters, interrupted, chunk_vars, child, watcher,
                 cancel_watcher_stop, ckpt_written, chunk_start, cancel_observed>>
  /\ UNCHANGED side_vars

\* the process dies (power loss, kill): only the files on disk survive
Crash ==
  /\ pc # "idle"
  /\ ResetMemory
  /\ Returned(is_resuming, "CRASHED", "")
  /\ UNCHANGED <<cfg, outcome, disk, cancel_event, inv, is_resuming,
                 ckpt_written, cancel_observed>>
  /\ UNCHANGED side_vars

(* ------------------------ run_send: the chunk loop --------------------- *)
batch_inputs == prepared_chunks[chunk_pos].inputs
batch_files == prepared_chunks[chunk_pos].files

ResultRow(f, status) ==
  [file_path |-> f, chunk_no |-> chunk_index, send_status |-> status, inv |-> inv]

CountersAfterWarnAsFail(c, status) ==
  IF status = "SENT_OK" THEN [c EXCEPT !.sent_ok = @ + 1]
  ELSE [c EXCEPT !.failed = @ + 1]
\* sent_ok += 1 / warned += 1 / failed += 1
CountersAfter(c, status) ==
  IF status = "SENT_OK" THEN [c EXCEPT !.sent_ok = @ + 1]
  ELSE IF status \in warning_statuses THEN [c EXCEPT !.warned = @ + 1]
  ELSE [c EXCEPT !.failed = @ + 1]

CheckpointPayloadSyncUnits(ic, uc, reason) ==
  [exists |-> TRUE,
   done_units |-> IF send_unit_is_file_mode THEN ic ELSE uc,
   done_files |-> IF reason = "CHUNK_SYNC" THEN uc ELSE ic,
   checkpoint_mode |-> "ITEM",
   checkpoint_reason |-> reason]
\* _write_send_checkpoint: the JSON object that replaces the checkpoint file
CheckpointPayload(ic, uc, reason) ==
  [exists |-> TRUE,
   done_units |-> IF send_unit_is_file_mode THEN ic ELSE uc,
   done_files |-> ic,
   checkpoint_mode |-> "ITEM",
   checkpoint_reason |-> reason]

\* top of the for loop over prepared_chunks: cancel check, then spawn the child
\* and start the cancel watcher; after the last sub-chunk go to the summary
ChunkLoop ==
  /\ pc = "loop"
  /\ IF chunk_pos > Len(prepared_chunks)
       THEN /\ pc' = "summary"
            /\ UNCHANGED <<interrupted, cancel_observed, chunk_vars, child,
                           watcher, cancel_watcher_stop, chunk_start>>
     ELSE IF cancel_event
       THEN /\ interrupted' = TRUE
            /\ cancel_observed' = IF cancel_observed = "" THEN "boundary" ELSE cancel_observed
            /\ pc' = "summary"
            /\ UNCHANGED <<chunk_vars, child, watcher, cancel_watcher_stop,
                           chunk_start>>
     ELSE /\ ResetChunk
          /\ child' = "running"
          /\ watcher' = "poll"
          /\ cancel_watcher_stop' = FALSE
          /\ chunk_start' = [item_cursor |-> item_cursor, counters |-> counters]
          /\ pc' = "drain"
          /\ UNCHANGED <<interrupted, cancel_observed>>
  /\ UNCHANGED <<cfg, outcome, disk, cancel_event, inv, hist, plan_vars,
                 item_cursor, unit_cursor, counters, ckpt_written>>
  /\ UNCHANGED side_vars

\* the real-time pass writes a row for an answered file of the batch that has
\* none yet (_write_realtime_iuid_row / _write_dcmtk_realtime_row)
RealtimeWrites(line) ==
  /\ realtime_iuid_enabled \/ dcmtk_realtime_enabled
  /\ line.kind = "RSP"
  /\ line.file \in Range(batch_files)
  /\ line.file \notin written

\* one iteration of `for line in self.current_proc.stdout`
ReadLine ==
  /\ pc = "drain"
  /\ line_pos < Len(ChildOutput(batch_files))
  /\ line_pos' = line_pos + 1
  /\ LET line == ChildOutput(batch_files)[line_pos + 1] IN
     IF cancel_event
       THEN /\ child' = IF child = "running" THEN "killed" ELSE child
            /\ interrupted' = TRUE
            /\ cancel_observed' = IF cancel_observed = "" THEN "chunk" ELSE cancel_observed
            /\ pc' = "finally"
            /\ UNCHANGED <<results, lines, written, row_file, item_cursor, counters>>
       ELSE /\ lines' = Append(lines, line)
            /\ UNCHANGED <<child, interrupted, cancel_observed>>
            /\ IF RealtimeWrites(line)
                 THEN /\ results' = Append(results, ResultRow(line.file, line.status))
                      /\ counters' = CountersAfter(counters, line.status)
                      /\ written' = written \cup {line.file}
                      /\ item_cursor' = item_cursor + 1
                      /\ row_file' = line.file
                      /\ pc' = "rt_ckpt"
                 ELSE UNCHANGED <<results, counters, written, item_cursor, row_file, pc>>
  /\ UNCHANGED <<cfg, outcome, send_summary, checkpoint, events_skip, cancel_event,
                 inv, hist, plan_vars, unit_cursor, exit_code, post_pos, watcher,
                 cancel_watcher_stop, ckpt_written, chunk_start>>
  /\ UNCHANGED side_vars

\* _write_send_checkpoint("ITEM", file) at the end of a real-time row
RealtimeCheckpoint ==
  /\ pc = "rt_ckpt"
  /\ checkpoint' = CheckpointPayload(item_cursor, unit_cursor, "ITEM")
  /\ ckpt_written' = TRUE
  /\ row_file' = 0
  /\ pc' = "drain"
  /\ UNCHANGED <<cfg, outcome, results, send_summary, events_skip, cancel_event,
                 inv, hist, plan_vars, item_cursor, unit_cursor, counters,
                 interrupted, lines, line_pos, written, exit_code, post_pos, child,
                 watcher, cancel_watcher_stop, chunk_start, cancel_observed>>
  /\ UNCHANGED side_vars

\* the stdout iterator ends (the child closed its pipe: it finished or was
\* killed); `if not interrupted: wait(); exit_code = returncode`
EndOfOutput ==
  /\ pc = "drain"
  /\ line_pos = Len(ChildOutput(batch_files)) \/ child = "killed"
  /\ IF interrupted
       THEN UNCHANGED exit_code
       ELSE exit_code' = IF child = "killed" THEN 1 ELSE 0
  /\ child' = IF child = "running" THEN "exited" ELSE child
  /\ pc' = "finally"
  /\ UNCHANGED <<cfg, outcome, disk, cancel_event, inv, hist, plan_vars,
                 item_cursor, unit_cursor, counters, interrupted, lines, line_pos,
                 written, row_file, post_pos, watcher, cancel_watcher_stop,
                 ckpt_written, chunk_start, cancel_observed>>
  /\ UNCHANGED side_vars

\* finally: cancel_watcher_stop.set()
FinallyStop ==
  /\ pc = "finally"
  /\ cancel_watcher_stop' = TRUE
  /\ pc' = "join"
  /\ UNCHANGED <<cfg, outcome, disk, cancel_event, inv, hist, plan_vars,
                 item_cursor, unit_cursor, counters, interrupted, chunk_vars,
                 child, watcher, ckpt_written, chunk_start, cancel_observed>>
  /\ UNCHANGED side_vars

\* cancel_watcher_thread.join(timeout=1.2); self.current_proc = None; then
\* `if interrupted: break`.  A watcher that polls every 0.15 s sees the stop
\* flag within the timeout; one that is still inside the tree-kill may not
\* have returned when the join times out.
JoinWatcher ==
  /\ pc = "join"
  /\ watcher \in {"done", "kill_done"}
  /\ child' = "none"
  /\ pc' = IF interrupted THEN "summary" ELSE "post"
  /\ UNCHANGED <<cfg, outcome, disk, cancel_event, inv, hist, plan_vars,
                 item_cursor, unit_cursor, counters, interrupted, chunk_vars,
                 watcher, cancel_watcher_stop, ckpt_written, chunk_start,
                 cancel_observed>>
  /\ UNCHANGED side_vars

\* _cancel_watcher: one turn of its loop
WatcherPoll ==
  /\ watcher = "poll"
  /\ IF cancel_watcher_stop \/ child # "running"
       THEN /\ watcher' = "done"
            /\ UNCHANGED <<child, cancel_observed>>
       ELSE /\ cancel_event               \* otherwise it sleeps 0.15 s
            /\ child' = "killed"          \* _kill_current_process_tree
            /\ cancel_observed' = IF cancel_observed = "" THEN "chunk" ELSE cancel_observed
            /\ watcher' = "kill_done"
  /\ UNCHANGED <<cfg, outcome, disk, cancel_event, pc, inv, hist, plan_vars,
                 item_cursor, unit_cursor, counters, interrupted, chunk_vars,
                 cancel_watcher_stop, ckpt_written, chunk_start>>
  /\ UNCHANGED side_vars

\* _cancel_watcher after the tree-kill returned: interrupted = True; return
WatcherSetInterrupted ==
  /\ watcher = "kill_done"
  /\ interrupted' = TRUE
  /\ watcher' = "done"
  /\ UNCHANGED <<cfg, outcome, disk, cancel_event, pc, inv, hist, plan_vars,
                 item_cursor, unit_cursor, counters, chunk_vars, child,
                 cancel_watcher_stop, ckpt_written, chunk_start, cancel_observed>>
  /\ UNCHANGED side_vars

(* --------------------- run_send: post-stream pass ---------------------- *)
PostSkipsNothing(f, wr) == FALSE
\* `if fp in realtime_written_files: continue` (dcmtk_written_files for dcmtk)
PostSkips(f, wr) == f \in wr

\* first position at or after pos whose file the post-stream pass handles
RECURSIVE NextPost(_, _, _)
NextPost(files, pos, wr) ==
  IF pos > Len(files) THEN pos
  ELSE IF PostSkips(files[pos], wr) THEN NextPost(files, pos + 1, wr)
  ELSE pos

HasResponse(ls, f) == \E i \in 1..Len(ls) : ls[i].kind = "RSP" /\ ls[i].file = f
ResponseStatus(ls, f) ==
  ls[CHOOSE i \in 1..Len(ls) : ls[i].kind = "RSP" /\ ls[i].file = f].status

\* status of a file in the post-stream pass, from the collected lines:
\* dcm4che: response evidence, else PROCESS_EXIT_FAIL when exit_code != 0,
\* else SENT_UNKNOWN; dcmtk: parse_send_output, default SENT_UNKNOWN
PostStatus(ls, f, ec) ==
  IF HasResponse(ls, f) THEN ResponseStatus(ls, f)
  ELSE IF cfg.toolkit = "dcm4che" /\ ec # 0 THEN "SEND_FAIL"
  ELSE "SENT_UNKNOWN"

\* one file of `for file_path in batch_files` after the child exited:
\* item_cursor += 1, counters, write_csv_row
PostStreamRow ==
  /\ pc = "post"
  /\ NextPost(batch_files, post_pos, written) <= Len(batch_files)
  /\ LET k == NextPost(batch_files, post_pos, written)
         f == batch_files[k]
         status == PostStatus(lines, f, exit_code)
     IN /\ item_cursor' = item_cursor + 1
        /\ counters' = CountersAfter(counters, status)
        /\ results' = Append(results, ResultRow(f, status))
        /\ row_file' = f
        /\ post_pos' = k + 1
  /\ pc' = "post_ckpt"
  /\ UNCHANGED <<cfg, outcome, send_summary, checkpoint, events_skip, cancel_event,
                 inv, hist, plan_vars, unit_cursor, interrupted, lines, line_pos,
                 written, exit_code, child, watcher, cancel_watcher_stop,
                 ckpt_written, chunk_start, cancel_observed>>
  /\ UNCHANGED side_vars

\* _write_send_checkpoint("ITEM", fp) at the end of a post-stream row
PostStreamCheckpoint ==
  /\ pc = "post_ckpt"
  /\ checkpoint' = CheckpointPayload(item_cursor, unit_cursor, "ITEM")
  /\ ckpt_written' = TRUE
  /\ row_file' = 0
  /\ pc' = "post"
  /\ UNCHANGED <<cfg, outcome, results, send_summary, events_skip, cancel_event,
                 inv, hist, plan_vars, item_cursor, unit_cursor, counters,
                 interrupted, lines, line_pos, written, exit_code, post_pos, child,
                 watcher, cancel_watcher_stop, chunk_start, cancel_observed>>
  /\ UNCHANGED side_vars

\* unit_cursor += len(batch_inputs); _write_send_checkpoint("CHUNK_SYNC")
ChunkSync ==
  /\ pc = "post"
  /\ NextPost(batch_files, post_pos, written) > Len(batch_files)
  /\ unit_cursor' = unit_cursor + Len(batch_inputs)
  /\ checkpoint' = CheckpointPayload(item_cursor, unit_cursor + Len(batch_inputs),
                                     "CHUNK_SYNC")
  /\ ckpt_written' = TRUE
  /\ chunk_pos' = chunk_pos + 1
  /\ chunk_index' = chunk_index + 1
  /\ pc' = "loop"
  /\ UNCHANGED <<cfg, outcome, results, send_summary, events_skip, cancel_event,
                 inv, hist, is_resuming, prepared_chunks, item_cursor, counters,
                 interrupted, chunk_vars, child, watcher, cancel_watcher_stop,
                 chunk_start, cancel_observed>>
  /\ UNCHANGED side_vars

(* ------------------- run_send: terminal summarization ------------------ *)
SummaryRow(status, agg) ==
  [status |-> status, sent_ok |-> agg.sent_ok, warnings |-> agg.warned,
   failed |-> agg.failed]

\* re-read the results, compute final_status, append the summary row, return
Summarize ==
  /\ pc = "summary"
  /\ LET agg == AggregateResults(results, counters)
         final_status == FinalStatus(interrupted, agg)
     IN /\ send_summary' = Append(send_summary, SummaryRow(final_status, agg))
        /\ Returned(is_resuming, final_status, cancel_observed)
  /\ ResetMemory
  /\ UNCHANGED <<cfg, outcome, results, checkpoint, events_skip, cancel_event,
                 inv, is_resuming, ckpt_written, cancel_observed>>
  /\ UNCHANGED side_vars

Next ==
  \/ \E bs \in 1..MaxBatch : StartSend(bs)
  \/ RequestCancel
  \/ Crash
  \/ ChunkLoop
  \/ ReadLine
  \/ RealtimeCheckpoint
  \/ EndOfOutput
  \/ FinallyStop
  \/ JoinWatcher
  \/ WatcherPoll
  \/ WatcherSetInterrupted
  \/ PostStreamRow
  \/ PostStreamCheckpoint
  \/ ChunkSync
  \/ Summarize

Spec == Init /\ [][Next]_vars

(* ============ ToolF: classification of the files of one sub-chunk ====== *)
(* One spawned dcm4che sub-chunk on its own: the batch files, the C-STORE   *)
(* lines the child prints, the rows of the real-time pass and of the        *)
(* post-stream pass.  The IUID of batch file f is f; 0 stands for "".       *)
(* The child follows the DIMSE exchange: an IUID is requested at most once  *)
(* and answered at most once, after its request.                            *)
NBatchFiles == 2

ClsFiles == 1..NBatchFiles
\* "DCM": payload extension, no UID in the name; "UIDNAME": bare dotted-numeric
\* name that is the file's IUID; "DICOMDIR": the directory file
FileKinds == {"DCM", "UIDNAME", "DICOMDIR"}
\* the status with which the archive rejects an instance, when it rejects it
ErrStatusOf(u) == IF u % 2 = 1 THEN "A700H" ELSE "C000H"
ExitCodes == {0, 2}
ClsEvents ==
  [kind : {"RQ"}, iuid : ClsFiles, status : {""}]
  \cup [kind : {"RSP_OK"}, iuid : ClsFiles, status : {"0H"}]
  \cup {[kind |-> "RSP_ERR", iuid |-> u, status |-> ErrStatusOf(u)] : u \in ClsFiles}

looks_like_dicom_payload_file(file) == file.kind # "DICOMDIR"

\* extract_metadata: the IUID dcmdump finds in the file, "" when it finds none
extract_metadata(files, f) == IF files[f].meta THEN f ELSE 0

\* Dcm4cheDriver.parse_send_output over the joined lines
rq_iuid_list(ls) ==
  LET rq == SelectSeq(ls, LAMBDA l : l.kind = "RQ")
  IN [i \in 1..Len(rq) |-> rq[i].iuid]
rq_iuid_set(ls) == Range(rq_iuid_list(ls))
ok_iuid_set(ls) == {ls[i].iuid : i \in {j \in 1..Len(ls) : ls[j].kind = "RSP_OK"}}
err_iuid_set(ls) == {ls[i].iuid : i \in {j \in 1..Len(ls) : ls[j].kind = "RSP_ERR"}}
err_status_by_iuid(ls, u) ==
  ls[CHOOSE i \in 1..Len(ls) :
       /\ ls[i].kind = "RSP_ERR" /\ ls[i].iuid = u
       /\ \A j \in 1..Len(ls) : (ls[j].kind = "RSP_ERR" /\ ls[j].iuid = u) => j <= i].status

\* realtime_payload_files / the payload-looking files of the batch, in order
payload_files(files) ==
  SelectSeq([i \in 1..Len(files) |-> i],
            LAMBDA f : looks_like_dicom_payload_file(files[f]))

\* inferred_iuid_by_file: the k-th payload-looking file gets the k-th request IUID
inferred_iuid_by_file(files, ls, f) ==
  LET pf == payload_files(files)
      rq == rq_iuid_list(ls)
  IN IF \E k \in 1..Len(pf) : pf[k] = f /\ k <= Len(rq)
       THEN rq[CHOOSE k \in 1..Len(pf) : pf[k] = f]
       ELSE 0

ClsRow(status, extract_status, iuid, rsp, detail) ==
  [send_status |-> status, extract_status |-> extract_status,
   sop_instance_uid |-> iuid, rsp_status |-> rsp, status_detail |-> detail]

NoRow == [send_status |-> ""]

PostTrustsRequest(src, ls, ec) ==
  IF src # 0 /\ src \in rq_iuid_set(ls)
    THEN ClsRow("SENT_OK", "OK_FROM_STORESCU", src, "", "dcm4che parse")
  ELSE IF ec # 0
    THEN ClsRow("SEND_FAIL", "PROCESS_EXIT_FAIL", src, "", "dcm4che parse")
  ELSE ClsRow("SENT_UNKNOWN", "NO_MATCH", 0, "", "dcm4che parse")

PostChecksExitFirst(src, ls, ec) ==
  IF ec # 0 /\ src \notin ok_iuid_set(ls) \cup err_iuid_set(ls)
    THEN ClsRow("SEND_FAIL", "PROCESS_EXIT_FAIL", src, "", "dcm4che parse")
  ELSE IF src # 0 /\ src \in ok_iuid_set(ls)
    THEN ClsRow("SENT_OK", "OK_FROM_STORESCU", src, "", "dcm4che parse")
  ELSE IF src # 0 /\ src \in err_iuid_set(ls)
    THEN ClsRow("SEND_FAIL", "ERR_FROM_STORESCU", src, err_status_by_iuid(ls, src),
                "dcm4che parse")
  ELSE IF src # 0 /\ src \in rq_iuid_set(ls)
    THEN ClsRow("SENT_UNKNOWN", "REQUESTED_NO_RSP", src, "", "dcm4che parse")
  ELSE IF src # 0
    THEN ClsRow("SENT_UNKNOWN", "NO_MATCH_UID_UNCONFIRMED", 0, "", "dcm4che parse")
  ELSE ClsRow("SENT_UNKNOWN", "NO_MATCH", 0, "", "dcm4che parse")
\* the status table of the post-stream pass for the correlated IUID src
PostStatusTable(src, ls, ec) ==
  IF src # 0 /\ src \in ok_iuid_set(ls)
    THEN ClsRow("SENT_OK", "OK_FROM_STORESCU", src, "", "dcm4che parse")
  ELSE IF src # 0 /\ src \in err_iuid_set(ls)
    THEN ClsRow("SEND_FAIL", "ERR_FROM_STORESCU", src, err_status_by_iuid(ls, src),
                "dcm4che parse")
  ELSE IF src # 0 /\ src \in rq_iuid_set(ls)
    THEN ClsRow("SENT_UNKNOWN", "REQUESTED_NO_RSP", src, "", "dcm4che parse")
  ELSE IF ec # 0
    THEN ClsRow("SEND_FAIL", "PROCESS_EXIT_FAIL", src, "", "dcm4che parse")
  ELSE IF src # 0
    THEN ClsRow("SENT_UNKNOWN", "NO_MATCH_UID_UNCONFIRMED", 0, "", "dcm4che parse")
  ELSE ClsRow("SENT_UNKNOWN", "NO_MATCH", 0, "", "dcm4che parse")

\* src_iuid of a file in the post-stream pass: metadata, else the file name,
\* overridden by the request-order inference when it is in none of the sets
CorrelatedIuid(files, ls, f) ==
  LET meta == extract_metadata(files, f)
      src == IF meta # 0 THEN meta
             ELSE IF looks_like_dicom_payload_file(files[f]) /\ files[f].kind = "UIDNAME"
               THEN f ELSE 0
      inferred == inferred_iuid_by_file(files, ls, f)
      seen == ok_iuid_set(ls) \cup err_iuid_set(ls) \cup rq_iuid_set(ls)
  IN IF inferred # 0 /\ (src = 0 \/ src \notin seen) THEN inferred ELSE src

\* one file of the ToolF post-stream loop
PostStreamClassify(files, ls, ec, f) ==
  PostStatusTable(CorrelatedIuid(files, ls, f), ls, ec)

RealtimeErrAsUnknown(rows, by_iuid, line) ==
  LET f == by_iuid[line.iuid] IN
  IF line.kind \in {"RSP_OK", "RSP_ERR"} /\ f # 0 /\ rows[f] = NoRow
    THEN [rows EXCEPT ![f] =
            IF line.kind = "RSP_OK"
              THEN ClsRow("SENT_OK", "OK_FROM_STORESCU_REALTIME", line.iuid, "0H",
                          "dcm4che realtime_iuid=ON")
              ELSE ClsRow("SEND_FAIL", "ERR_FROM_STORESCU_REALTIME", line.iuid,
                          "UNKNOWN", "dcm4che realtime_iuid=ON")]
    ELSE rows
\* _process_realtime_stream_line + _write_realtime_iuid_row for a response:
\* the row of the file mapped to the answered IUID, unless it has one
RealtimeRows(rows, by_iuid, line) ==
  LET f == by_iuid[line.iuid] IN
  IF line.kind \in {"RSP_OK", "RSP_ERR"} /\ f # 0 /\ rows[f] = NoRow
    THEN [rows EXCEPT ![f] =
            IF line.kind = "RSP_OK"
              THEN ClsRow("SENT_OK", "OK_FROM_STORESCU_REALTIME", line.iuid, "0H",
                          "dcm4che realtime_iuid=ON")
              ELSE ClsRow("SEND_FAIL", "ERR_FROM_STORESCU_REALTIME", line.iuid,
                          line.status, "dcm4che realtime_iuid=ON")]
    ELSE rows

\* _process_realtime_stream_line for a request: map the IUID to the next
\* payload-looking file, while there is one
RealtimeMap(files, by_iuid, cursor, line) ==
  IF line.kind = "RQ" /\ by_iuid[line.iuid] = 0 /\ cursor < Len(payload_files(files))
    THEN [by_iuid EXCEPT ![line.iuid] = payload_files(files)[cursor + 1]]
    ELSE by_iuid

Requested(ls, u) == \E i \in 1..Len(ls) : ls[i].kind = "RQ" /\ ls[i].iuid = u
Responded(ls, u) ==
  \E i \in 1..Len(ls) : ls[i].kind \in {"RSP_OK", "RSP_ERR"} /\ ls[i].iuid = u

ClsInit ==
  /\ SendInit
  /\ cfg = [toolkit |-> "dcm4che", dcm4che_send_mode |-> "MANIFEST_FILES",
            dcm4che_iuid_update_mode |-> "REALTIME"]
  /\ outcome = [f \in Files |-> "SENT_OK"]
  /\ cls \in [pc : {"stream"},
              iuid_mode : {"REALTIME", "CHUNK_END"},
              files : [ClsFiles -> [kind : FileKinds, meta : BOOLEAN]],
              lines : {<<>>},
              file_by_iuid : {[u \in ClsFiles |-> 0]},
              payload_cursor : {0},
              rows : {[f \in ClsFiles |-> NoRow]},
              realtime : {{}},
              exit_code : {-1},
              status : {""}]
  /\ val = Parked /\ rid = Parked /\ art = Parked /\ req = Parked /\ shelf = Parked /\ wf = Parked /\ an = Parked /\ spl = Parked /\ hc = Parked /\ tk = Parked /\ est = Parked /\ dr = Parked /\ grp = Parked /\ ra = Parked

\* the child prints one C-STORE line; the main thread reads it
ClsReadLine ==
  /\ cls.pc = "stream"
  /\ \E line \in ClsEvents :
       /\ \/ line.kind = "RQ" /\ ~Requested(cls.lines, line.iuid)
          \/ /\ line.kind \in {"RSP_OK", "RSP_ERR"}
             /\ Requested(cls.lines, line.iuid) /\ ~Responded(cls.lines, line.iuid)
       /\ LET rt == cls.iuid_mode = "REALTIME"
              by == IF rt THEN RealtimeMap(cls.files, cls.file_by_iuid,
                                           cls.payload_cursor, line)
                    ELSE cls.file_by_iuid
              rows == IF rt THEN RealtimeRows(cls.rows, by, line) ELSE cls.rows
          IN cls' = [cls EXCEPT
                       !.lines = Append(@, line),
                       !.file_by_iuid = by,
                       !.payload_cursor = IF by # cls.file_by_iuid THEN @ + 1 ELSE @,
                       !.rows = rows,
                       !.realtime = {f \in ClsFiles : rows[f] # NoRow}]
  /\ UNCHANGED cls_frame

\* the child closes its output and exits: wait(), exit_code = returncode
ClsChildExit ==
  /\ cls.pc = "stream"
  /\ \E ec \in ExitCodes : cls' = [cls EXCEPT !.pc = "post", !.exit_code = ec]
  /\ UNCHANGED cls_frame

\* the post-stream loop over batch_files, then the terminal summarization
ClsPostStream ==
  /\ cls.pc = "post"
  /\ LET rows == [f \in ClsFiles |->
                    IF f \in cls.realtime THEN cls.rows[f]
                    ELSE PostStreamClassify(cls.files, cls.lines, cls.exit_code, f)]
         agg == [sent_ok |-> Cardinality({f \in ClsFiles : rows[f].send_status = "SENT_OK"}),
                 warned |-> Cardinality({f \in ClsFiles :
                              rows[f].send_status \in warning_statuses}),
                 failed |-> Cardinality({f \in ClsFiles :
                              rows[f].send_status \notin warning_statuses \cup {"SENT_OK"}})]
     IN cls' = [cls EXCEPT !.pc = "done", !.rows = rows,
                           !.status = FinalStatus(FALSE, agg)]
  /\ UNCHANGED cls_frame

ClsNext ==
  \/ ClsReadLine
  \/ ClsChildExit
  \/ ClsPostStream

SpecClassify == ClsInit /\ [][ClsNext]_vars

(* ================= Validate: REST lookups and reconciliation =========== *)
(* One call of ValidationWorkflow.run_validation on a run whose            *)
(* send_results_by_file.csv holds one row per file.  File paths are the    *)
(* row numbers, IUIDs are 1..2 and 0 stands for "".  The legacy            *)
(* file_iuid_map.csv is absent.  The archive's REST endpoint is the        *)
(* environment: every lookup draws its reply.                              *)
NValRows == 2
ValRows == 1..NValRows
ValIuids == {1, 2}
ValSendStatuses == {"SENT_OK", "SENT_UNKNOWN", "SEND_FAIL"}

\* outcomes of urlopen(req, timeout=20), resp.read() and json.loads(body)
RestReplies ==
  {[raised |-> "", code |-> "200", body |-> b] :
     b \in {"LIST", "EMPTY_LIST", "BLANK", "OBJECT", "INVALID"}}
  \cup {[raised |-> "HTTPError", code |-> c, body |-> ""] : c \in {"404", "500"}}
  \cup {[raised |-> e, code |-> "", body |-> ""] : e \in {"timeout", "URLError"}}

\* the try block of one lookup: api_found and http_status
RestLookupErrorsAsTransport(reply) ==
  IF reply.raised # "" THEN [api_found |-> 0, http_status |-> "ERR"]
  ELSE IF reply.body = "INVALID" THEN [api_found |-> 0, http_status |-> "ERR"]
  ELSE [api_found |-> IF reply.body = "LIST" THEN 1 ELSE 0,
        http_status |-> reply.code]
RestLookup(reply) ==
  IF reply.raised = "HTTPError" THEN [api_found |-> 0, http_status |-> reply.code]
  ELSE IF reply.raised # "" THEN [api_found |-> 0, http_status |-> "ERR"]
  ELSE IF reply.body = "INVALID" THEN [api_found |-> 0, http_status |-> "ERR"]
  ELSE [api_found |-> IF reply.body = "LIST" THEN 1 ELSE 0,
        http_status |-> reply.code]

validation_status(api_found, http_status) ==
  IF api_found = 1 THEN "OK"
  ELSE IF http_status \in {"ERR", ""} THEN "API_ERROR" ELSE "NOT_FOUND"

\* build_iuid_map_from_send_rows, then the consistency extraction of the
\* SENT_OK rows that have no IUID (meta[fp] is what extract_metadata returns)
map_by_file(send_rows, meta) ==
  [fp \in ValRows |->
     IF send_rows[fp].sop_instance_uid # 0 THEN send_rows[fp].sop_instance_uid
     ELSE IF send_rows[fp].send_status = "SENT_OK" THEN meta[fp] ELSE 0]

\* apply_send_result_updates: the extracted IUIDs are persisted
apply_send_result_updates(send_rows, map) ==
  [fp \in ValRows |->
     [send_rows[fp] EXCEPT !.sop_instance_uid =
        IF send_rows[fp].send_status = "SENT_OK" THEN map[fp] ELSE @]]

\* keys of iuid_to_files in insertion order
RECURSIVE iuid_to_files(_, _, _)
iuid_to_files(send_rows, map, n) ==
  IF n = 0 THEN <<>>
  ELSE LET prev == iuid_to_files(send_rows, map, n - 1)
           u == map[n]
       IN IF send_rows[n].send_status # "SENT_OK" \/ u = 0
             \/ (\E i \in 1..Len(prev) : prev[i] = u)
          THEN prev ELSE Append(prev, u)

files_of_iuid(send_rows, map, u) ==
  {fp \in ValRows : send_rows[fp].send_status = "SENT_OK" /\ map[fp] = u}

\* final_status of the reconciliation row
reconciliation_status(fail_count, ok_count, miss_count, api_err_count) ==
  IF api_err_count > 0 /\ ok_count = 0 THEN "FAIL"
  ELSE IF fail_count > 0 \/ api_err_count > 0 \/ miss_count > 0
       THEN "PASS_WITH_WARNINGS"
  ELSE "PASS"

NoRecon == [final_status |-> ""]

ValInit ==
  /\ SendInit
  /\ cfg = [toolkit |-> "dcm4che", dcm4che_send_mode |-> "MANIFEST_FILES",
            dcm4che_iuid_update_mode |-> "REALTIME"]
  /\ outcome = [f \in Files |-> "SENT_OK"]
  /\ cls = Parked /\ rid = Parked /\ art = Parked /\ req = Parked /\ shelf = Parked /\ wf = Parked /\ an = Parked /\ spl = Parked /\ hc = Parked /\ tk = Parked /\ est = Parked /\ dr = Parked /\ grp = Parked /\ ra = Parked
  /\ val \in [pc : {"start"},
              send_results : [ValRows -> [send_status : ValSendStatuses,
                                          sop_instance_uid : ValIuids \cup {0}]],
              send_rows : {<<>>},
              map_by_file : {<<>>},
              iuid_to_files : {<<>>},
              replies : {<<>>},
              ok_count : {0}, miss_count : {0}, api_err_count : {0},
              validation_results : {{}},
              recon : {NoRecon},
              cancel_event : {FALSE}]

\* read the send rows, complete missing IUIDs, group the files by IUID
ValStart ==
  /\ val.pc = "start"
  /\ \E meta \in [ValRows -> ValIuids \cup {0}] :
       /\ \A fp \in ValRows :
            (val.send_results[fp].send_status # "SENT_OK"
             \/ val.send_results[fp].sop_instance_uid # 0) => meta[fp] = 0
       /\ LET rows == val.send_results
              map == map_by_file(rows, meta)
          IN val' = [val EXCEPT
                       !.pc = "lookup",
                       !.send_rows = rows,
                       !.map_by_file = map,
                       !.send_results = apply_send_result_updates(rows, map),
                       !.iuid_to_files = iuid_to_files(rows, map, NValRows)]
  /\ UNCHANGED val_frame

\* one iteration of the REST loop: query the next IUID, count, write its rows
ValLookup ==
  /\ val.pc = "lookup"
  /\ Len(val.replies) < Len(val.iuid_to_files)
  /\ ~val.cancel_event
  /\ \E reply \in RestReplies :
       LET iuid == val.iuid_to_files[Len(val.replies) + 1]
           got == RestLookup(reply)
           status == validation_status(got.api_found, got.http_status)
       IN val' = [val EXCEPT
                    !.replies = Append(@, reply),
                    !.ok_count = IF got.api_found = 1 THEN @ + 1 ELSE @,
                    !.api_err_count =
                       IF got.api_found # 1 /\ got.http_status \in {"ERR", ""}
                       THEN @ + 1 ELSE @,
                    !.miss_count =
                       IF got.api_found # 1 /\ got.http_status \notin {"ERR", ""}
                       THEN @ + 1 ELSE @,
                    !.validation_results = @ \cup
                       {[file_path |-> fp, sop_instance_uid |-> iuid,
                         send_status |-> "SENT_OK", validation_status |-> status,
                         api_found |-> got.api_found,
                         http_status |-> got.http_status] :
                          fp \in files_of_iuid(val.send_rows, val.map_by_file, iuid)}]
  /\ UNCHANGED val_frame

\* the operator cancels the validation
ValCancel ==
  /\ val.pc \in {"start", "lookup"}
  /\ ~val.cancel_event
  /\ val' = [val EXCEPT !.cancel_event = TRUE]
  /\ UNCHANGED val_frame

\* the loop finds the cancel flag set: RuntimeError("Validacao cancelada.")
ValCancelled ==
  /\ val.pc = "lookup"
  /\ Len(val.replies) < Len(val.iuid_to_files)
  /\ val.cancel_event
  /\ val' = [val EXCEPT !.pc = "cancelled"]
  /\ UNCHANGED val_frame

\* after the loop: the reconciliation row
ValReconcile ==
  /\ val.pc = "lookup"
  /\ Len(val.replies) = Len(val.iuid_to_files)
  /\ LET warnings_count == Cardinality({fp \in ValRows :
                              val.send_rows[fp].send_status \in warning_statuses})
         fail_count == Cardinality({fp \in ValRows :
                              val.send_rows[fp].send_status = "SEND_FAIL"})
     IN val' = [val EXCEPT
                  !.pc = "done",
                  !.recon = [total_iuid_unique |-> Len(val.iuid_to_files),
                             iuid_ok |-> val.ok_count,
                             iuid_not_found |-> val.miss_count,
                             iuid_api_error |-> val.api_err_count,
                             send_warning_files |-> warnings_count,
                             send_failed_files |-> fail_count,
                             final_status |->
                               reconciliation_status(fail_count, val.ok_count,
                                 val.miss_count, val.api_err_count)]]
  /\ UNCHANGED val_frame

ValNext ==
  \/ ValStart
  \/ ValLookup
  \/ ValCancel
  \/ ValCancelled
  \/ ValReconcile

SpecValidate == ValInit /\ [][ValNext]_vars

(* ======================== run id normalization ========================= *)
(* A run id is a sequence of tokens: "a" is any run of characters without  *)
(* underscore or blank that is none of the words below, "_" one            *)
(* underscore, " " one blank, and the words are those the known suffixes   *)
(* are made of.  endswith on characters and on tokens then agree.          *)
MaxIdLen == 4
IdTokens == {"a", "_", " ", "dcm4che", "files", "folders", "dcmtk"}
RunIds == UNION {[1..n -> IdTokens] : n \in 1..MaxIdLen}
Toolkits ==
  {[toolkit |-> "dcm4che", dcm4che_send_mode |-> "MANIFEST_FILES"],
   [toolkit |-> "dcm4che", dcm4che_send_mode |-> "FOLDERS"],
   [toolkit |-> "dcmtk", dcm4che_send_mode |-> "MANIFEST_FILES"]}

EndsWith(s, suffix) ==
  /\ Len(s) >= Len(suffix)
  /\ SubSeq(s, Len(s) - Len(suffix) + 1, Len(s)) = suffix

RECURSIVE rstrip(_, _)
rstrip(s, chars) ==
  IF s # <<>> /\ s[Len(s)] \in chars
  THEN rstrip(SubSeq(s, 1, Len(s) - 1), chars) ELSE s

RECURSIVE lstrip(_, _)
lstrip(s, chars) ==
  IF s # <<>> /\ s[1] \in chars THEN lstrip(Tail(s), chars) ELSE s

strip(s) == lstrip(rstrip(s, {" "}), {" "})

toolkit_run_suffix(toolkit, dcm4che_send_mode) ==
  IF toolkit = "dcm4che"
  THEN IF dcm4che_send_mode = "MANIFEST_FILES"
       THEN <<"dcm4che", "_", "files">> ELSE <<"dcm4che", "_", "folders">>
  ELSE <<"dcmtk">>

known_suffixes ==
  << <<"_", "dcm4che", "_", "folders">>,
     <<"_", "dcm4che", "_", "files">>,
     <<"_", "dcm4che">>,
     <<"_", "dcmtk">> >>

\* the while loop: cut the first known suffix that matches, then the
\* underscores left at the end, until none matches
RECURSIVE strip_suffix_loop(_)
strip_suffix_loop(base) ==
  LET hits == {i \in 1..Len(known_suffixes) : EndsWith(base, known_suffixes[i])}
  IN IF hits = {} THEN base
     ELSE LET i == CHOOSE h \in hits : \A g \in hits : h <= g
          IN strip_suffix_loop(
               rstrip(SubSeq(base, 1, Len(base) - Len(known_suffixes[i])), {"_"}))

strip_known_run_suffixes(run_id) ==
  LET base == strip(run_id)
  IN IF base = <<>> THEN base ELSE strip_suffix_loop(base)

with_toolkit_suffix(run_id, toolkit, dcm4che_send_mode) ==
  LET suffix == toolkit_run_suffix(toolkit, dcm4che_send_mode)
      raw == strip(run_id)
      base == strip_known_run_suffixes(raw)
  IN IF raw = <<>> THEN raw
     ELSE IF EndsWith(base, <<"_">> \o suffix) THEN base
     ELSE base \o <<"_">> \o suffix

RidInit ==
  /\ SendInit
  /\ cfg = [toolkit |-> "dcm4che", dcm4che_send_mode |-> "MANIFEST_FILES",
            dcm4che_iuid_update_mode |-> "REALTIME"]
  /\ outcome = [f \in Files |-> "SENT_OK"]
  /\ cls = Parked /\ val = Parked /\ art = Parked /\ req = Parked /\ shelf = Parked /\ wf = Parked /\ an = Parked /\ spl = Parked /\ hc = Parked /\ tk = Parked /\ est = Parked /\ dr = Parked /\ grp = Parked /\ ra = Parked
  /\ rid \in [pc : {"raw"},
              run_id : {x \in RunIds : strip(x) # <<>>},
              cfg : Toolkits,
              run : {<<>>},
              again : {<<>>}]

\* Analyze on the raw id typed by the operator
RidNormalize ==
  /\ rid.pc = "raw"
  /\ rid' = [rid EXCEPT !.pc = "normalized",
               !.run = with_toolkit_suffix(rid.run_id, rid.cfg.toolkit,
                                           rid.cfg.dcm4che_send_mode)]
  /\ UNCHANGED rid_frame

\* Analyze again on the id the first call produced, same driver and mode
RidNormalizeAgain ==
  /\ rid.pc = "normalized"
  /\ rid' = [rid EXCEPT !.pc = "again",
               !.again = with_toolkit_suffix(rid.run, rid.cfg.toolkit,
                                             rid.cfg.dcm4che_send_mode)]
  /\ UNCHANGED rid_frame

RidNext ==
  \/ RidNormalize
  \/ RidNormalizeAgain

SpecRunId == RidInit /\ [][RidNext]_vars

(* ========================= artifact layout resolver ==================== *)
(* The files of a run directory for a few artifact names, as a set of      *)
(* paths, and the callers of the resolver: a caller resolves a name for    *)
(* writing and later creates the file at the path it was given, resolves   *)
(* for reading, or cleans both variants up.                                *)
ArtNames == {"events.csv", "validation_full_report_A.csv"}
RUN_ARTIFACT_SUBDIR ==
  [filename \in ArtNames |->
     IF filename = "events.csv" THEN "telemetry" ELSE "reports"]

\* the callers' keep_legacy_on_write: the reports opt out
keep_legacy_on_write(filename) == RUN_ARTIFACT_SUBDIR[filename] # "reports"

run_artifact_variants(filename) ==
  [categorized_path |-> <<RUN_ARTIFACT_SUBDIR[filename], filename>>,
   legacy_path |-> <<filename>>]

ArtPaths ==
  UNION {{run_artifact_variants(n).categorized_path,
          run_artifact_variants(n).legacy_path} : n \in ArtNames}

resolve_run_artifact_path(disk_files, filename, for_write, keep_legacy) ==
  LET v == run_artifact_variants(filename)
  IN IF v.categorized_path \in disk_files THEN v.categorized_path
     ELSE IF for_write
          THEN IF keep_legacy /\ v.legacy_path \in disk_files
               THEN v.legacy_path ELSE v.categorized_path
          ELSE IF v.legacy_path \in disk_files
               THEN v.legacy_path ELSE v.categorized_path

cleanup_run_artifact_variants(disk_files, filename) ==
  disk_files \ {run_artifact_variants(filename).categorized_path,
                run_artifact_variants(filename).legacy_path}

NoPath == <<>>

ArtInit ==
  /\ SendInit
  /\ cfg = [toolkit |-> "dcm4che", dcm4che_send_mode |-> "MANIFEST_FILES",
            dcm4che_iuid_update_mode |-> "REALTIME"]
  /\ outcome = [f \in Files |-> "SENT_OK"]
  /\ cls = Parked /\ val = Parked /\ rid = Parked /\ req = Parked /\ shelf = Parked /\ wf = Parked /\ an = Parked /\ spl = Parked /\ hc = Parked /\ tk = Parked /\ est = Parked /\ dr = Parked /\ grp = Parked /\ ra = Parked
  /\ art \in [pc : {"on"},
              disk_files : SUBSET ArtPaths,
              held : {[n \in ArtNames |-> NoPath]},
              write_gave : {[n \in ArtNames |-> NoPath]},
              read_gave : {[n \in ArtNames |-> NoPath]},
              read_saw : {[n \in ArtNames |-> {}]},
              read_after_write : {[n \in ArtNames |-> NoPath]}]

\* path = resolve_run_artifact_path(run_dir, filename, for_write=True, ...)
ArtResolveWrite ==
  /\ art.pc = "on"
  /\ \E n \in ArtNames :
       LET p == resolve_run_artifact_path(art.disk_files, n, TRUE,
                                          keep_legacy_on_write(n))
       IN art' = [art EXCEPT !.held[n] = p, !.write_gave[n] = p]
  /\ UNCHANGED art_frame

\* write_csv_row / write_csv_table on the path the caller holds
ArtCreateFile ==
  /\ art.pc = "on"
  /\ \E n \in ArtNames :
       /\ art.held[n] # NoPath
       /\ art' = [art EXCEPT !.disk_files = @ \cup {art.held[n]}]
  /\ UNCHANGED art_frame

\* resolve_run_artifact_path(run_dir, filename, for_write=False)
ArtResolveRead ==
  /\ art.pc = "on"
  /\ \E n \in ArtNames :
       art' = [art EXCEPT
                 !.read_gave[n] =
                    resolve_run_artifact_path(art.disk_files, n, FALSE, TRUE),
                 !.read_saw[n] = {"read"} \cup
                    {k \in {"categorized", "legacy"} :
                       \/ k = "categorized"
                          /\ run_artifact_variants(n).categorized_path \in art.disk_files
                       \/ k = "legacy"
                          /\ run_artifact_variants(n).legacy_path \in art.disk_files},
                 !.read_after_write[n] = art.write_gave[n]]
  /\ UNCHANGED art_frame

\* cleanup_run_artifact_variants(run_dir, filename)
ArtCleanup ==
  /\ art.pc = "on"
  /\ \E n \in ArtNames :
       art' = [art EXCEPT
                 !.disk_files = cleanup_run_artifact_variants(@, n)]
  /\ UNCHANGED art_frame

ArtNext ==
  \/ ArtResolveWrite
  \/ ArtCreateFile
  \/ ArtResolveRead
  \/ ArtCleanup

SpecResolver == ArtInit /\ [][ArtNext]_vars

(* ================= request validation of Analyze and Send ============== *)
(* One call of run_analysis or run_send with its arguments, and the parts  *)
(* of the file system it can touch: the runs base directory, the run       *)
(* directory, the manifest and the artifacts the call writes.  A Java      *)
(* runtime is available.                                                   *)
ReqPaths == {"runs_base", "run_dir", "manifest_files.csv", "analysis_artifacts",
             "send_artifacts"}
ReqRunIds == {"", "run"}

\* directory trees that can exist before the call
ReqFileSystems ==
  {{}, {"runs_base"}, {"runs_base", "run_dir"},
   {"runs_base", "run_dir", "manifest_files.csv", "analysis_artifacts"}}

\* AnalyzeWorkflow.run_analysis up to its return or its first raise
run_analysis(fs, exam_root_exists, batch_size) ==
  LET made == fs \cup {"runs_base", "run_dir"}
  IN IF ~exam_root_exists
     THEN [fs |-> made, error |-> "Pasta nao encontrada"]
     ELSE IF batch_size < 1
     THEN [fs |-> made, error |-> "batch_size deve ser >= 1"]
     ELSE [fs |-> made \cup {"manifest_files.csv", "analysis_artifacts"},
           error |-> ""]

\* SendWorkflow.run_send up to its first raise, or the whole Send
run_send(fs, run_id, batch_size) ==
  IF run_id = "" THEN [fs |-> fs, error |-> "run_id e obrigatorio para envio."]
  ELSE IF "run_dir" \notin fs THEN [fs |-> fs, error |-> "Run nao encontrado"]
  ELSE IF batch_size < 1 THEN [fs |-> fs, error |-> "batch_size deve ser >= 1"]
  ELSE IF "manifest_files.csv" \notin fs
  THEN [fs |-> fs, error |-> "Arquivo nao encontrado"]
  ELSE [fs |-> fs \cup {"send_artifacts"}, error |-> ""]

ReqInit ==
  /\ SendInit
  /\ cfg = [toolkit |-> "dcm4che", dcm4che_send_mode |-> "MANIFEST_FILES",
            dcm4che_iuid_update_mode |-> "REALTIME"]
  /\ outcome = [f \in Files |-> "SENT_OK"]
  /\ cls = Parked /\ val = Parked /\ rid = Parked /\ art = Parked /\ shelf = Parked /\ wf = Parked /\ an = Parked /\ spl = Parked /\ hc = Parked /\ tk = Parked /\ est = Parked /\ dr = Parked /\ grp = Parked /\ ra = Parked
  /\ req \in [pc : {"called"},
              op : {"analyze", "send"},
              run_id : ReqRunIds,
              batch_size : 0..MaxBatch,
              exam_root_exists : BOOLEAN,
              fs_before : ReqFileSystems,
              fs : {{}},
              error : {""}]
  /\ req.run_id = "" => "run_dir" \notin req.fs_before

ReqRunAnalysis ==
  /\ req.pc = "called" /\ req.op = "analyze"
  /\ LET r == run_analysis(req.fs_before, req.exam_root_exists, req.batch_size)
     IN req' = [req EXCEPT !.pc = IF r.error = "" THEN "returned" ELSE "raised",
                           !.fs = r.fs, !.error = r.error]
  /\ UNCHANGED req_frame

ReqRunSend ==
  /\ req.pc = "called" /\ req.op = "send"
  /\ LET r == run_send(req.fs_before, req.run_id, req.batch_size)
     IN req' = [req EXCEPT !.pc = IF r.error = "" THEN "returned" ELSE "raised",
                           !.fs = r.fs, !.error = r.error]
  /\ UNCHANGED req_frame

ReqNext ==
  \/ ReqRunAnalysis
  \/ ReqRunSend

SpecRequest == ReqInit /\ [][ReqNext]_vars

(* ============== Send on the same run under another driver ============== *)
(* The operator changes the toolkit or the dcm4che send mode between two   *)
(* Sends of the same run.  `checkpoint` is the checkpoint file of the      *)
(* configured driver and mode; the files of the other ones rest on the     *)
(* shelf.  send_results_by_file.csv and send_summary.csv have one name for *)
(* all drivers.  The archive accepts every file.                           *)
send_checkpoint_filename(c) ==
  IF c.toolkit = "dcm4che"
  THEN IF c.dcm4che_send_mode = "MANIFEST_FILES"
       THEN "send_checkpoint_dcm4che_files.json"
       ELSE "send_checkpoint_dcm4che_folders.json"
  ELSE "send_checkpoint_dcmtk.json"

CheckpointNames == {send_checkpoint_filename(c) : c \in Configs}

SwitchInit ==
  /\ SendInit
  /\ outcome = [f \in Files |-> "SENT_OK"]
  /\ cls = Parked /\ val = Parked /\ rid = Parked /\ art = Parked /\ req = Parked /\ wf = Parked /\ an = Parked /\ spl = Parked /\ hc = Parked /\ tk = Parked /\ est = Parked /\ dr = Parked /\ grp = Parked /\ ra = Parked
  /\ shelf = [pc |-> "on",
              files |-> [n \in CheckpointNames |-> NoCheckpoint],
              switched_at |-> 0]

\* the configuration dialog saves another toolkit or send mode while no
\* worker runs
SwitchDriver ==
  /\ pc = "idle"
  /\ inv > 0
  /\ shelf.switched_at = 0
  /\ \E c \in Configs :
       /\ send_checkpoint_filename(c) # send_checkpoint_filename(cfg)
       /\ cfg' = c
       /\ checkpoint' = shelf.files[send_checkpoint_filename(c)]
       /\ shelf' = [shelf EXCEPT
                      !.files[send_checkpoint_filename(cfg)] = checkpoint,
                      !.switched_at = inv]
  /\ UNCHANGED <<outcome, results, send_summary, events_skip, cancel_event, pc,
                 inv, hist, plan_vars, item_cursor, unit_cursor, counters,
                 interrupted, chunk_vars, child, watcher, cancel_watcher_stop,
                 ckpt_written, chunk_start, cancel_observed>>
  /\ UNCHANGED <<cls, val, rid, art, req, wf, an, spl, hc, tk, est, dr, grp, ra>>

SwitchNext ==
  \/ Next
  \/ SwitchDriver

SpecSwitch == SwitchInit /\ [][SwitchNext]_vars

(* ================= cancellation as seen by the caller ================== *)
(* One call of a workflow from its UI worker thread: the loop that polls   *)
(* the cancel flag, an ordinary failure of the call, and what the worker   *)
(* puts on the UI queue.                                                   *)
MaxWfItems == 3
Workflows == {"analyze", "send", "validate", "report"}

\* what the loop does when it finds cancel_event set
on_cancel(workflow) ==
  IF workflow = "analyze" THEN [raised |-> "WorkflowCancelled", status |-> ""]
  ELSE IF workflow = "send" THEN [raised |-> "", status |-> "INTERRUPTED"]
  ELSE [raised |-> "RuntimeError", status |-> ""]

\* an ordinary failure of the call (run not found, folder not found, ...)
on_failure(workflow) == [raised |-> "RuntimeError", status |-> ""]

on_success(workflow) ==
  [raised |-> "", status |-> IF workflow \in {"send", "validate"} THEN "PASS" ELSE ""]

\* the except clauses of the worker's task()
ui_event(workflow, end) ==
  LET prefix == IF workflow = "analyze" THEN "an"
                ELSE IF workflow = "send" THEN "send"
                ELSE IF workflow = "validate" THEN "val" ELSE "report"
  IN IF end.raised = "" THEN prefix \o "_done"
     ELSE IF workflow = "analyze" /\ end.raised = "WorkflowCancelled"
          THEN "an_cancelled"
     ELSE prefix \o "_error"

NoEnd == [raised |-> "", status |-> ""]

WfInit ==
  /\ SendInit
  /\ cfg = [toolkit |-> "dcm4che", dcm4che_send_mode |-> "MANIFEST_FILES",
            dcm4che_iuid_update_mode |-> "REALTIME"]
  /\ outcome = [f \in Files |-> "SENT_OK"]
  /\ cls = Parked /\ val = Parked /\ rid = Parked /\ art = Parked /\ req = Parked /\ shelf = Parked /\ an = Parked /\ spl = Parked /\ hc = Parked /\ tk = Parked /\ est = Parked /\ dr = Parked /\ grp = Parked /\ ra = Parked
  /\ wf \in [pc : {"entry"},
             workflow : Workflows,
             items : 1..MaxWfItems,
             done : {0},
             cancel_event : {FALSE},
             cause : {""},
             end : {NoEnd},
             queue : {""}]

WfEnd(cause, end) ==
  wf' = [wf EXCEPT !.pc = "ended", !.cause = cause, !.end = end,
                   !.queue = ui_event(wf.workflow, end)]

\* the operator presses Cancel while the worker is busy
WfRequestCancel ==
  /\ wf.pc \in {"entry", "loop"}
  /\ ~wf.cancel_event
  /\ wf' = [wf EXCEPT !.cancel_event = TRUE]
  /\ UNCHANGED wf_frame

\* the checks before the loop pass
WfEnter ==
  /\ wf.pc = "entry"
  /\ wf' = [wf EXCEPT !.pc = "loop"]
  /\ UNCHANGED wf_frame

\* a check before the loop fails: raise RuntimeError(...)
WfFail ==
  /\ wf.pc = "entry"
  /\ WfEnd("failure", on_failure(wf.workflow))
  /\ UNCHANGED wf_frame

\* top of the loop: cancel_event.is_set()
WfObserveCancel ==
  /\ wf.pc = "loop"
  /\ wf.done < wf.items
  /\ wf.cancel_event
  /\ WfEnd("cancel", on_cancel(wf.workflow))
  /\ UNCHANGED wf_frame

\* one iteration: a folder scanned, a sub-chunk sent, an IUID looked up, a row
\* exported
WfIterate ==
  /\ wf.pc = "loop"
  /\ wf.done < wf.items
  /\ ~wf.cancel_event
  /\ wf' = [wf EXCEPT !.done = @ + 1]
  /\ UNCHANGED wf_frame

WfReturn ==
  /\ wf.pc = "loop"
  /\ wf.done = wf.items
  /\ WfEnd("", on_success(wf.workflow))
  /\ UNCHANGED wf_frame

WfNext ==
  \/ WfRequestCancel
  \/ WfEnter
  \/ WfFail
  \/ WfObserveCancel
  \/ WfIterate
  \/ WfReturn

SpecCancel == WfInit /\ [][WfNext]_vars

(* ======================= Analyze: the selection predicate ================ *)
(* AnalyzeWorkflow.run_analysis walks the exam root and writes one row of    *)
(* manifest_files.csv per regular file, then one analysis_summary.csv row.   *)

MaxScanFiles == 2

\* Path(entry.name).suffix of the scanned files, as found on disk
Suffixes == {"", ".dcm", ".DCM", ".txt"}

\* str.lower() on the suffixes and tokens of the model
lower(s) ==
  CASE s = ".DCM" -> ".dcm"
    [] s = "DCM" -> "dcm"
    [] OTHER -> s

\* tokens of allowed_extensions_csv, already split on "," and stripped
ExtTokens == {"dcm", ".DCM", ".txt"}

with_dot(t) ==
  CASE t = "dcm" -> ".dcm"
    [] t = "txt" -> ".txt"
    [] OTHER -> t

parse_extensions(tokens) == {with_dot(lower(t)) : t \in tokens}

AnToolkits == {"dcm4che", "dcmtk"}
AnSendModes == {"FOLDERS", "MANIFEST_FILES"}

force_all_files_for_folders_off(c) == FALSE

force_all_files_for_folders(c) ==
  c.toolkit = "dcm4che" /\ c.dcm4che_send_mode = "FOLDERS"

restrict_extensions(c) ==
  IF force_all_files_for_folders(c) THEN FALSE ELSE c.restrict_extensions

\* the manifest row of one file: selected_for_send and selection_reason
selection(c, suffix) ==
  LET ext == lower(suffix)
      no_ext == ext = ""
      allowed_ext == parse_extensions(c.allowed_extensions)
  IN IF restrict_extensions(c)
       THEN [extension |-> ext,
             selected_for_send |->
               IF (ext \in allowed_ext) \/ (no_ext /\ c.include_no_extension)
                 THEN 1 ELSE 0,
             selection_reason |->
               IF ext \in allowed_ext THEN "INCLUDED_EXT"
               ELSE IF no_ext /\ c.include_no_extension THEN "INCLUDED_NO_EXT"
               ELSE "EXCLUDED_EXTENSION"]
       ELSE [extension |-> ext, selected_for_send |-> 1,
             selection_reason |-> "INCLUDED_ALL_FILES"]

NoSummary == [files_total |-> -1, files_selected_for_send |-> -1, files_excluded |-> -1]

AnInit ==
  /\ SendInit
  /\ cfg = [toolkit |-> "dcm4che", dcm4che_send_mode |-> "MANIFEST_FILES",
            dcm4che_iuid_update_mode |-> "REALTIME"]
  /\ outcome = [f \in Files |-> "SENT_OK"]
  /\ cls = Parked /\ val = Parked /\ rid = Parked /\ art = Parked /\ req = Parked /\ shelf = Parked /\ wf = Parked /\ spl = Parked /\ hc = Parked /\ tk = Parked /\ est = Parked /\ dr = Parked /\ grp = Parked /\ ra = Parked
  /\ an \in [pc : {"scan"},
             cfg : [toolkit : AnToolkits,
                    dcm4che_send_mode : AnSendModes,
                    restrict_extensions : BOOLEAN,
                    include_no_extension : BOOLEAN,
                    allowed_extensions : SUBSET ExtTokens],
             rows : {<<>>},
             total_files : {0},
             selected_files : {0},
             excluded_files : {0},
             summary : {NoSummary}]

\* one regular file met by the scan
AnScanFile ==
  /\ an.pc = "scan"
  /\ Len(an.rows) < MaxScanFiles
  /\ \E suffix \in Suffixes :
       LET row == selection(an.cfg, suffix)
           include == row.selected_for_send = 1
       IN an' = [an EXCEPT
                   !.rows = Append(@, row),
                   !.selected_files = IF include THEN @ + 1 ELSE @,
                   !.excluded_files = IF include THEN @ ELSE @ + 1,
                   !.total_files = @ + 1]
  /\ UNCHANGED an_frame

\* the directory stack is empty: analysis_summary.csv is written
AnSummary ==
  /\ an.pc = "scan"
  /\ an' = [an EXCEPT
              !.pc = "done",
              !.summary = [files_total |-> an.total_files,
                           files_selected_for_send |-> an.selected_files,
                           files_excluded |-> an.excluded_files]]
  /\ UNCHANGED an_frame

AnNext ==
  \/ AnScanFile
  \/ AnSummary

SpecAnalyze == AnInit /\ [][AnNext]_vars

(* ================= ToolF: splitting a batch by command length ============ *)
(* _split_dcm4che_inputs_by_cmd_limit is a pure function of the batch and of *)
(* the budget.  Lengths are scaled down: a unit is its position in the batch *)
(* and the length of its quoted argument.                                    *)

MaxSplitUnits == 3
MaxArgLen == 4
\* length of the joined fixed part of _build_dcm4che_cmd_bat (storescu -c aet@host:port)
BaseCmdLen == 3
\* the two budgets of _dcm4che_cmd_budget, scaled
CmdSafeMaxChars == 7
DirectSafeMaxChars == 10

SplitUnits == [id : 1..MaxSplitUnits, len : 1..MaxArgLen]
SplitInputs ==
  UNION {{b \in [1..n -> SplitUnits] : \A i \in 1..n : b[i].id = i} : n \in 0..MaxSplitUnits}

RECURSIVE args_len(_)
\* the inputs of a command line, each preceded by its separating space
args_len(units) ==
  IF units = <<>> THEN 0 ELSE 1 + Head(units).len + args_len(Tail(units))

\* command_line_len(self._build_dcm4che_cmd_bat(units))
command_line_len(units) == BaseCmdLen + args_len(units)

must_split_any(current, trial_len, budget) == trial_len > budget

\* `if current and trial_len > budget`
must_split(current, trial_len, budget) == current # <<>> /\ trial_len > budget

SplitInit ==
  /\ SendInit
  /\ cfg = [toolkit |-> "dcm4che", dcm4che_send_mode |-> "MANIFEST_FILES",
            dcm4che_iuid_update_mode |-> "REALTIME"]
  /\ outcome = [f \in Files |-> "SENT_OK"]
  /\ cls = Parked /\ val = Parked /\ rid = Parked /\ art = Parked /\ req = Parked /\ shelf = Parked /\ wf = Parked /\ an = Parked /\ hc = Parked /\ tk = Parked /\ est = Parked /\ dr = Parked /\ grp = Parked /\ ra = Parked
  /\ spl \in [pc : {"for"},
              batch_inputs : SplitInputs,
              budget : {CmdSafeMaxChars, DirectSafeMaxChars},
              pos : {1},
              current : {<<>>},
              split_batches : {<<>>},
              max_cmdline_len : {0}]

\* one turn of `for unit in batch_inputs`
SplitUnit ==
  /\ spl.pc = "for"
  /\ spl.pos <= Len(spl.batch_inputs)
  /\ LET unit == spl.batch_inputs[spl.pos]
         trial == Append(spl.current, unit)
         trial_len == command_line_len(trial)
     IN IF must_split(spl.current, trial_len, spl.budget)
          THEN spl' = [spl EXCEPT
                         !.split_batches = Append(@, spl.current),
                         !.current = <<unit>>,
                         !.max_cmdline_len =
                            Max(Max(@, trial_len), command_line_len(<<unit>>)),
                         !.pos = @ + 1]
          ELSE spl' = [spl EXCEPT
                         !.current = trial,
                         !.max_cmdline_len = Max(@, trial_len),
                         !.pos = @ + 1]
  /\ UNCHANGED spl_frame

\* after the loop: `if current: split_batches.append(current)`; return
SplitReturn ==
  /\ spl.pc = "for"
  /\ spl.pos > Len(spl.batch_inputs)
  /\ spl' = [spl EXCEPT
               !.pc = "returned",
               !.split_batches = IF spl.current # <<>> THEN Append(@, spl.current) ELSE @]
  /\ UNCHANGED spl_frame

SplitNext ==
  \/ SplitUnit
  \/ SplitReturn

SpecSplit == SplitInit /\ [][SplitNext]_vars

(* ================= Send pre-flight: the ToolF health-check =============== *)
(* run_send resolves a usable Java first, loads the plan, cleans up on a     *)
(* fresh start, and then checks the critical jars, before the chunk loop.    *)

MaxPriorRows == 1

DCM4CHE_CRITICAL_JAR_MARKERS ==
  {"dcm4che-tool-storescu", "dcm4che-tool-common", "dcm4che-net", "dcm4che-core"}

\* file names that lib/*.jar may list
LibJars ==
  {"dcm4che-tool-storescu-5.jar", "dcm4che-tool-common-5.jar", "dcm4che-net-5.jar",
   "dcm4che-net-audit-5.jar", "dcm4che-core-5.jar", "slf4j-api-2.jar"}

\* `marker_l in jar` on the names above
marker_in(marker, jar) ==
  \/ marker = "dcm4che-tool-storescu" /\ jar = "dcm4che-tool-storescu-5.jar"
  \/ marker = "dcm4che-tool-common" /\ jar = "dcm4che-tool-common-5.jar"
  \/ marker = "dcm4che-net" /\ jar \in {"dcm4che-net-5.jar", "dcm4che-net-audit-5.jar"}
  \/ marker = "dcm4che-core" /\ jar = "dcm4che-core-5.jar"

missing_none(lib) == {}

\* _check_dcm4che_java_dependencies: the markers no jar of lib/ carries
missing_jars(lib) ==
  {marker \in DCM4CHE_CRITICAL_JAR_MARKERS : ~ \E jar \in lib.jars : marker_in(marker, jar)}

jars_ok(lib) == lib.exists /\ missing_jars(lib) = {}

HcInit ==
  /\ SendInit
  /\ cfg = [toolkit |-> "dcm4che", dcm4che_send_mode |-> "MANIFEST_FILES",
            dcm4che_iuid_update_mode |-> "REALTIME"]
  /\ outcome = [f \in Files |-> "SENT_OK"]
  /\ cls = Parked /\ val = Parked /\ rid = Parked /\ art = Parked /\ req = Parked /\ shelf = Parked /\ wf = Parked /\ an = Parked /\ spl = Parked /\ tk = Parked /\ est = Parked /\ dr = Parked /\ grp = Parked /\ ra = Parked
  /\ hc \in [pc : {"entry"},
             toolkit : {"dcm4che", "dcmtk"},
             java_usable : BOOLEAN,
             lib : [exists : BOOLEAN, jars : SUBSET LibJars],
             is_resuming : BOOLEAN,
             rows : 0..MaxPriorRows,
             summary_rows : 0..MaxPriorRows,
             rows_written : {0},
             summary_written : {0},
             checkpoint_written : {FALSE},
             events : {<<>>},
             spawned : {FALSE},
             raised : {""}]

\* resolve_java_executable for ToolF; RuntimeError when none is usable
HcResolveJava ==
  /\ hc.pc = "entry"
  /\ IF hc.toolkit = "dcm4che" /\ ~hc.java_usable
       THEN hc' = [hc EXCEPT !.pc = "ended", !.raised = "java_unavailable"]
       ELSE hc' = [hc EXCEPT !.pc = "cleanup"]
  /\ UNCHANGED hc_frame

\* `if not is_resuming:` the results, the summary and the raw log are deleted
HcCleanup ==
  /\ hc.pc = "cleanup"
  /\ hc' = [hc EXCEPT !.pc = "healthcheck",
                      !.rows = IF hc.is_resuming THEN @ ELSE 0,
                      !.summary_rows = IF hc.is_resuming THEN @ ELSE 0]
  /\ UNCHANGED hc_frame

\* RUN_SEND_MODE and RUN_SEND_JAVA_HEALTHCHECK events; RuntimeError on FAIL
HcHealthCheck ==
  /\ hc.pc = "healthcheck"
  /\ IF hc.toolkit # "dcm4che"
       THEN hc' = [hc EXCEPT !.pc = "loop"]
     ELSE IF jars_ok(hc.lib)
       THEN hc' = [hc EXCEPT !.pc = "loop",
                             !.events = @ \o <<"RUN_SEND_MODE", "RUN_SEND_JAVA_HEALTHCHECK:OK">>]
     ELSE hc' = [hc EXCEPT !.pc = "ended",
                           !.raised = "healthcheck_fail",
                           !.events = @ \o <<"RUN_SEND_MODE", "RUN_SEND_JAVA_HEALTHCHECK:FAIL">>]
  /\ UNCHANGED hc_frame

\* the first sub-chunk: subprocess.Popen
HcSpawn ==
  /\ hc.pc = "loop"
  /\ hc' = [hc EXCEPT !.pc = "chunk", !.spawned = TRUE]
  /\ UNCHANGED hc_frame

\* the first sub-chunk: a row and its checkpoint
HcRow ==
  /\ hc.pc = "chunk"
  /\ hc' = [hc EXCEPT !.pc = "summary",
                      !.rows = @ + 1,
                      !.rows_written = @ + 1,
                      !.checkpoint_written = TRUE]
  /\ UNCHANGED hc_frame

\* the send_summary.csv row at the end of the Send
HcSummary ==
  /\ hc.pc = "summary"
  /\ hc' = [hc EXCEPT !.pc = "ended",
                      !.summary_rows = @ + 1,
                      !.summary_written = @ + 1]
  /\ UNCHANGED hc_frame

HcNext ==
  \/ HcResolveJava
  \/ HcCleanup
  \/ HcHealthCheck
  \/ HcSpawn
  \/ HcRow
  \/ HcSummary

SpecHealth == HcInit /\ [][HcNext]_vars

(* ============ ToolT: classification of the files of one sub-chunk ======= *)
(* One spawned storescu (dcmtk) sub-chunk on its own: the lines the child   *)
(* prints, the rows of the real-time pass, DcmtkDriver.parse_send_output    *)
(* over the collected lines, and the rows of the post-stream pass.          *)
NTkFiles == 2
MaxTkLines == 4

TkFiles == 1..NTkFiles
\* Path(file).name of the batch files: the first one is the directory file
tk_name(f) == IF f = 1 THEN "DICOMDIR" ELSE "IMG"

RspDetails == {"Success", "Unknown Status: 0x110", "Refused: OutOfResources"}
\* the lines of the child that one of the DCMTK_*_RE expressions matches
TkLines ==
  [kind : {"SENDING", "BAD", "NO_SOP", "FAILED"}, file : TkFiles, detail : {""}]
  \cup [kind : {"RSP"}, file : {0}, detail : RspDetails]
  \cup {[kind |-> "REASON", file |-> 0, detail |-> ""]}

TkRow(status, detail) == [send_status |-> status, status_detail |-> detail]
NoTkRow == [send_status |-> "", status_detail |-> ""]

rsp_status_plain(detail, f) ==
  IF detail = "Success" THEN "SENT_OK" ELSE "SEND_FAIL"

\* status of a store response for the current file
rsp_status(detail, f) ==
  IF detail = "Unknown Status: 0x110" /\ tk_name(f) = "DICOMDIR"
    THEN "UNSUPPORTED_DICOM_OBJECT"
  ELSE IF detail = "Success" THEN "SENT_OK"
  ELSE "SEND_FAIL"

\* DcmtkDriver.parse_send_output: one turn of `for line in lines`
parse_line(st, ln) ==
  CASE ln.kind = "SENDING" ->
         [st EXCEPT !.current_file = ln.file,
                    !.result[ln.file] =
                       IF @ = NoTkRow
                         THEN TkRow("SENT_UNKNOWN", "File sending initiated; awaiting response")
                         ELSE @,
                    !.pending_failed_file = 0]
    [] ln.kind = "BAD" ->
         [st EXCEPT !.result[ln.file] = TkRow("NON_DICOM", "bad file"),
                    !.pending_failed_file = 0]
    [] ln.kind = "NO_SOP" ->
         [st EXCEPT !.result[ln.file] =
                       TkRow("SENT_UNKNOWN", "No SOP Class or Instance UID in file"),
                    !.pending_failed_file = 0,
                    !.current_file = ln.file]
    [] ln.kind = "FAILED" ->
         [st EXCEPT !.result[ln.file] =
                       TkRow("SENT_UNKNOWN", "Store failed; awaiting reason line"),
                    !.pending_failed_file = ln.file,
                    !.current_file = ln.file]
    [] ln.kind = "REASON" ->
         IF st.pending_failed_file # 0
           THEN [st EXCEPT !.result[st.pending_failed_file] =
                              TkRow("SENT_UNKNOWN", "0006:0317 reason"),
                           !.pending_failed_file = 0]
           ELSE st
    [] ln.kind = "RSP" ->
         IF st.current_file # 0
           THEN [st EXCEPT !.result[st.current_file] =
                              TkRow(rsp_status(ln.detail, st.current_file), ln.detail),
                           !.pending_failed_file = 0]
           ELSE st

RECURSIVE parse_lines(_, _)
parse_lines(st, out) ==
  IF out = <<>> THEN st ELSE parse_lines(parse_line(st, Head(out)), Tail(out))

\* DcmtkDriver.parse_send_output(lines, batch_files)
dcmtk_parse_send_output(out) ==
  LET st == parse_lines([result |-> [f \in TkFiles |-> NoTkRow],
                         current_file |-> 0, pending_failed_file |-> 0], out)
  IN [f \in TkFiles |->
        IF st.result[f] = NoTkRow
          THEN TkRow("SENT_UNKNOWN", "parse_status=UNKNOWN;reason=no_match_in_output")
          ELSE st.result[f]]

\* What storescu prints: every file is named by at most one "Sending file"
\* line, which is followed by at most one outcome for that file (a bad-file
\* line, a missing-UID line, a store-failed line with its reason line, or a
\* store response); files rejected while the command line is scanned get a
\* bad-file line only, and a response may be printed before any file is sent.
ChildMayPrint(ln) ==
  CASE ln.kind = "SENDING" -> ln.file \notin tk.named /\ ~tk.await_reason
    [] ln.kind = "BAD"     -> \/ tk.open = ln.file
                              \/ tk.open = 0 /\ ln.file \notin tk.named /\ ~tk.await_reason
    [] ln.kind = "NO_SOP"  -> tk.open = ln.file
    [] ln.kind = "FAILED"  -> tk.open = ln.file
    [] ln.kind = "REASON"  -> tk.await_reason
    [] ln.kind = "RSP"     -> \/ tk.open # 0
                              \/ tk.lines = <<>>

\* _write_dcmtk_realtime_row: the first row of a file stays
tk_write(rows, f, status, detail) ==
  IF rows[f] = NoTkRow THEN [rows EXCEPT ![f] = TkRow(status, detail)] ELSE rows

TkInit ==
  /\ SendInit
  /\ cfg = [toolkit |-> "dcmtk", dcm4che_send_mode |-> "MANIFEST_FILES",
            dcm4che_iuid_update_mode |-> "REALTIME"]
  /\ outcome = [f \in Files |-> "SENT_OK"]
  /\ cls = Parked /\ val = Parked /\ rid = Parked /\ art = Parked /\ req = Parked /\ shelf = Parked /\ wf = Parked /\ an = Parked /\ spl = Parked /\ hc = Parked /\ est = Parked /\ dr = Parked /\ grp = Parked /\ ra = Parked
  /\ tk = [pc |-> "stream",
           lines |-> <<>>,
           named |-> {},
           open |-> 0,
           await_reason |-> FALSE,
           dcmtk_current_file |-> 0,
           rows |-> [f \in TkFiles |-> NoTkRow],
           realtime |-> {},
           parsed |-> [f \in TkFiles |-> NoTkRow]]

\* the child prints a line; the drain loop classifies it (dcmtk_realtime_enabled)
TkReadLine ==
  /\ tk.pc = "stream"
  /\ Len(tk.lines) < MaxTkLines
  /\ \E ln \in TkLines :
       /\ ChildMayPrint(ln)
       /\ LET cur == IF ln.kind = "SENDING" THEN ln.file ELSE tk.dcmtk_current_file
              after_bad ==
                IF ln.kind = "BAD"
                  THEN [rows |-> tk_write(tk.rows, ln.file, "NON_DICOM", "bad file"),
                        cur |-> IF cur = ln.file THEN 0 ELSE cur]
                  ELSE [rows |-> tk.rows, cur |-> cur]
              after_rsp ==
                IF ln.kind = "RSP" /\ after_bad.cur # 0
                  THEN [rows |-> tk_write(after_bad.rows, after_bad.cur,
                                          rsp_status(ln.detail, after_bad.cur), ln.detail),
                        cur |-> 0]
                  ELSE after_bad
          IN tk' = [tk EXCEPT
                      !.lines = Append(@, ln),
                      !.named = IF ln.file # 0 THEN @ \cup {ln.file} ELSE @,
                      !.open = IF ln.kind = "SENDING" THEN ln.file ELSE 0,
                      !.await_reason = (ln.kind = "FAILED"),
                      !.dcmtk_current_file = after_rsp.cur,
                      !.rows = after_rsp.rows,
                      !.realtime = {f \in TkFiles : after_rsp.rows[f] # NoTkRow}]
  /\ UNCHANGED tk_frame

\* the child exits: parse_send_output and the post-stream loop over batch_files
TkPostStream ==
  /\ tk.pc = "stream"
  /\ LET parsed == dcmtk_parse_send_output(tk.lines)
     IN tk' = [tk EXCEPT
                 !.pc = "done",
                 !.parsed = parsed,
                 !.rows = [f \in TkFiles |->
                             IF f \in tk.realtime THEN tk.rows[f] ELSE parsed[f]]]
  /\ UNCHANGED tk_frame

TkNext ==
  \/ TkReadLine
  \/ TkPostStream

SpecDcmtk == TkInit /\ [][TkNext]_vars

(* ============ Analyze: batch_max_cmd ==================================== *)
(* The estimate Analyze writes into analysis_summary.csv, with the lengths  *)
(* scaled like those of the splitter: a selected unit is the length of its  *)
(* quoted argument.                                                         *)
MaxEstUnits == 3
\* length "cmd /c " adds to the joined base command (scaled)
WrapperLen == 1

EstUnits == UNION {[1..n -> 1..MaxArgLen] : n \in 0..MaxEstUnits}

RECURSIVE max_arg_len(_)
\* unit_max_arg_len = max(unit_max_arg_len, _windows_cmdline_arg_len(unit))
max_arg_len(units) ==
  IF units = <<>> THEN 0 ELSE Max(Head(units), max_arg_len(Tail(units)))

\* _windows_cmdline_len(cmd_args) of the command without inputs
base_len(e) == BaseCmdLen + (IF e.dcm4che_use_shell_wrapper THEN WrapperLen ELSE 0)

est_floor_only(n_units, max_units) == max_units

\* `return min(n_units, max_units)`
est_clamp(n_units, max_units) == Min(n_units, max_units)

\* estimate_dcm4che_batch_max_cmd(cfg, unit_max_arg_len, n_units)
estimate_dcm4che_batch_max_cmd(e, unit_max_arg_len, n_units) ==
  IF e.is_windows /\ e.dcm4che_prefer_java_direct
    THEN [value |-> n_units, source |-> "DCM4CHE_JAVA_ARGFILE",
          budget |-> DirectSafeMaxChars]
  ELSE
    LET budget == IF e.is_windows /\ e.dcm4che_use_shell_wrapper
                    THEN CmdSafeMaxChars ELSE DirectSafeMaxChars
        remaining == budget - base_len(e)
        per_unit_cost == 1 + unit_max_arg_len
        value ==
          IF n_units <= 0 THEN 0
          ELSE IF unit_max_arg_len <= 0 THEN n_units
          ELSE IF remaining < per_unit_cost THEN 0
          ELSE est_clamp(n_units, remaining \div per_unit_cost)
    IN [value |-> value, source |-> "DCM4CHE_CMD_LIMIT", budget |-> budget]

EstInit ==
  /\ SendInit
  /\ cfg = [toolkit |-> "dcm4che", dcm4che_send_mode |-> "MANIFEST_FILES",
            dcm4che_iuid_update_mode |-> "REALTIME"]
  /\ outcome = [f \in Files |-> "SENT_OK"]
  /\ cls = Parked /\ val = Parked /\ rid = Parked /\ art = Parked /\ req = Parked /\ shelf = Parked /\ wf = Parked /\ an = Parked /\ spl = Parked /\ hc = Parked /\ tk = Parked /\ dr = Parked /\ grp = Parked /\ ra = Parked
  /\ est \in [pc : {"scan"},
              toolkit : {"dcm4che", "dcmtk"},
              is_windows : BOOLEAN,
              dcm4che_use_shell_wrapper : BOOLEAN,
              dcm4che_prefer_java_direct : BOOLEAN,
              units : {<<>>},
              batch_max_cmd : {"none"},
              batch_max_cmd_source : {""}]

\* the scan selects one more unit (a file, or a folder in folder mode)
EstSelectUnit ==
  /\ est.pc = "scan"
  /\ Len(est.units) < MaxEstUnits
  /\ \E len \in 1..MaxArgLen : est' = [est EXCEPT !.units = Append(@, len)]
  /\ UNCHANGED est_frame

\* run_analysis: batch_max_cmd and its source for analysis_summary.csv
EstSummary ==
  /\ est.pc = "scan"
  /\ LET r == estimate_dcm4che_batch_max_cmd(est, max_arg_len(est.units), Len(est.units))
     IN est' = [est EXCEPT
                  !.pc = "done",
                  !.batch_max_cmd = IF est.toolkit = "dcm4che" THEN r.value ELSE "",
                  !.batch_max_cmd_source = IF est.toolkit = "dcm4che" THEN r.source ELSE "N/A"]
  /\ UNCHANGED est_frame

EstNext ==
  \/ EstSelectUnit
  \/ EstSummary

SpecEstimate == EstInit /\ [][EstNext]_vars

(* ============ Send: the drain of a sub-chunk and its cancel watcher ===== *)
(* The resources of one Send on their own: the raw-log file, the reference  *)
(* to the child (self.current_proc), the child, the stop event and the      *)
(* cancel watcher thread, over the sub-chunks of one invocation.  The       *)
(* tree-kill is taken to kill a running child.                              *)
MaxDrainChunks == 2
MaxDrainLines == 2

proc_kept_on_exception(e) == IF e = "exception" THEN "proc" ELSE "none"

\* finally: self.current_proc = None
proc_after_finally(e) == "none"

watcher_never_kills(c) == FALSE

\* _cancel_watcher: `if self.cancel_event.is_set()`
watcher_must_kill(c) == c

DrInit ==
  /\ SendInit
  /\ cfg = [toolkit |-> "dcm4che", dcm4che_send_mode |-> "MANIFEST_FILES",
            dcm4che_iuid_update_mode |-> "REALTIME"]
  /\ outcome = [f \in Files |-> "SENT_OK"]
  /\ cls = Parked /\ val = Parked /\ rid = Parked /\ art = Parked /\ req = Parked /\ shelf = Parked /\ wf = Parked /\ an = Parked /\ spl = Parked /\ hc = Parked /\ tk = Parked /\ est = Parked /\ grp = Parked /\ ra = Parked
  /\ dr = [pc |-> "loop",
           chunk |-> 0,
           current_proc |-> "none",
           child |-> "none",
           lf |-> "closed",
           cancel_watcher_stop |-> FALSE,
           watcher |-> "none",
           joined |-> "",
           interrupted |-> FALSE,
           cancel_event |-> FALSE,
           exit |-> "",
           nlines |-> 0,
           result |-> ""]

\* the UI sets the cancel flag
DrRequestCancel ==
  /\ dr.pc # "returned"
  /\ ~dr.cancel_event
  /\ dr' = [dr EXCEPT !.cancel_event = TRUE]
  /\ UNCHANGED dr_frame

\* top of the chunk loop: break on cancel, leave after the last sub-chunk, or
\* open the raw log, spawn the child and start its watcher
DrLoop ==
  /\ dr.pc = "loop"
  /\ IF dr.cancel_event \/ dr.chunk = MaxDrainChunks
       THEN dr' = [dr EXCEPT !.pc = "returned", !.result = "returned"]
       ELSE \/ dr' = [dr EXCEPT !.pc = "returned", !.result = "returned"]
            \/ dr' = [dr EXCEPT !.pc = "drain",
                                !.chunk = @ + 1,
                                !.lf = "open",
                                !.current_proc = "proc",
                                !.child = "running",
                                !.cancel_watcher_stop = FALSE,
                                !.watcher = "poll",
                                !.joined = "",
                                !.exit = "",
                                !.nlines = 0]
  /\ UNCHANGED dr_frame

\* subprocess.Popen raises: the with block closes the raw log, run_send raises
DrPopenFails ==
  /\ dr.pc = "loop"
  /\ ~dr.cancel_event
  /\ dr.chunk < MaxDrainChunks
  /\ dr' = [dr EXCEPT !.pc = "returned", !.result = "raised", !.lf = "closed"]
  /\ UNCHANGED dr_frame

\* the child exits by itself
DrChildExit ==
  /\ dr.child = "running"
  /\ dr' = [dr EXCEPT !.child = "exited"]
  /\ UNCHANGED dr_frame

\* `for line in self.current_proc.stdout`: one line.  Cancel breaks the loop
\* after the tree-kill; writing or classifying the line may raise.
DrReadLine ==
  /\ dr.pc = "drain"
  /\ dr.nlines < MaxDrainLines
  /\ IF dr.cancel_event
       THEN dr' = [dr EXCEPT !.child = IF @ = "running" THEN "killed" ELSE @,
                             !.interrupted = TRUE,
                             !.exit = "cancel",
                             !.pc = "finally"]
       ELSE \/ dr' = [dr EXCEPT !.nlines = @ + 1]
            \/ dr' = [dr EXCEPT !.exit = "exception", !.pc = "finally"]
  /\ UNCHANGED dr_frame

\* the pipe is closed: `if not interrupted: self.current_proc.wait()`
DrEndOfOutput ==
  /\ dr.pc = "drain"
  /\ dr.child \in {"exited", "killed"}
  /\ dr' = [dr EXCEPT !.exit = "normal", !.pc = "finally"]
  /\ UNCHANGED dr_frame

\* finally: cancel_watcher_stop.set()
DrFinallyStop ==
  /\ dr.pc = "finally"
  /\ dr' = [dr EXCEPT !.cancel_watcher_stop = TRUE, !.pc = "join"]
  /\ UNCHANGED dr_frame

\* finally: cancel_watcher_thread.join(timeout=1.2); self.current_proc = None.
\* A polling watcher sees the stop event well inside the timeout; one that is
\* inside the tree-kill may still be there when the timeout expires.
DrJoin ==
  /\ dr.pc = "join"
  /\ dr.watcher # "poll"
  /\ dr' = [dr EXCEPT !.joined = IF dr.watcher = "done" THEN "returned" ELSE "timeout",
                      !.current_proc = proc_after_finally(dr.exit),
                      !.pc = "close"]
  /\ UNCHANGED dr_frame

\* end of the with block: the raw log is closed; then the exception goes on,
\* `if interrupted: break`, or the post-stream pass
DrClose ==
  /\ dr.pc = "close"
  /\ dr' = [dr EXCEPT
              !.lf = "closed",
              !.pc = IF dr.exit = "exception" \/ dr.interrupted THEN "returned" ELSE "post",
              !.result = IF dr.exit = "exception" THEN "raised"
                         ELSE IF dr.interrupted THEN "returned" ELSE @]
  /\ UNCHANGED dr_frame

\* the post-stream pass of the sub-chunk: back to the loop, or it raises
DrPost ==
  /\ dr.pc = "post"
  /\ \/ dr' = [dr EXCEPT !.pc = "loop"]
     \/ dr' = [dr EXCEPT !.pc = "returned", !.result = "raised"]
  /\ UNCHANGED dr_frame

\* _cancel_watcher: a turn of its loop that does not end in the sleep.  On
\* cancel it calls _kill_current_process_tree: the child is killed, the
\* watcher is inside the call until it returns.
DrWatcherPoll ==
  /\ dr.watcher = "poll"
  /\ \/ /\ dr.cancel_watcher_stop
        /\ dr' = [dr EXCEPT !.watcher = "done"]
     \/ /\ dr.current_proc = "none" \/ dr.child # "running"
        /\ dr' = [dr EXCEPT !.watcher = "done"]
     \/ /\ dr.current_proc # "none" /\ dr.child = "running"
        /\ watcher_must_kill(dr.cancel_event)
        /\ dr' = [dr EXCEPT !.child = "killed", !.watcher = "kill_done"]
  /\ UNCHANGED dr_frame

\* _cancel_watcher after the tree-kill: interrupted = True; return
DrWatcherSetInterrupted ==
  /\ dr.watcher = "kill_done"
  /\ dr' = [dr EXCEPT !.interrupted = TRUE, !.watcher = "done"]
  /\ UNCHANGED dr_frame

DrNext ==
  \/ DrRequestCancel
  \/ DrLoop
  \/ DrPopenFails
  \/ DrChildExit
  \/ DrReadLine
  \/ DrEndOfOutput
  \/ DrFinallyStop
  \/ DrJoin
  \/ DrClose
  \/ DrPost
  \/ DrWatcherPoll
  \/ DrWatcherSetInterrupted

SpecDrain == DrInit /\ [][DrNext]_vars

\* The main thread and the watcher thread are scheduled fairly; nothing is
\* assumed about the child (it may print nothing and never exit) or the UI.
SpecDrainFair ==
  /\ DrInit
  /\ [][DrNext]_vars
  /\ WF_vars(DrLoop)
  /\ WF_vars(DrEndOfOutput)
  /\ WF_vars(DrFinallyStop)
  /\ WF_vars(DrJoin)
  /\ WF_vars(DrClose)
  /\ WF_vars(DrPost)
  /\ WF_vars(DrWatcherPoll)
  /\ WF_vars(DrWatcherSetInterrupted)

(* ============ Validate: the rows of validation_results.csv ============== *)
(* The send rows as send_results_by_file.csv holds them after resumed       *)
(* sends: a sequence in which a file may have several rows.  Files are      *)
(* 1..NGrpFiles, IUIDs 1..2 with 0 for "".                                  *)
NGrpFiles == 2
MaxGrpRows == 3

GrpFiles == 1..NGrpFiles
GrpRows == [file_path : GrpFiles, send_status : {"SENT_OK", "SEND_FAIL"},
            sop_instance_uid : {0, 1, 2}]

RECURSIVE build_iuid_map_from_send_rows(_)
\* out[fp] = {...} for every row with an IUID: the last such row of a file stays
build_iuid_map_from_send_rows(rows) ==
  IF rows = <<>> THEN [fp \in GrpFiles |-> 0]
  ELSE LET out == build_iuid_map_from_send_rows(SubSeq(rows, 1, Len(rows) - 1))
           row == rows[Len(rows)]
       IN IF row.sop_instance_uid = 0 THEN out
          ELSE [out EXCEPT ![row.file_path] = row.sop_instance_uid]

\* the consistency pass: SENT_OK files not in the map get the extracted IUID
consistency_fill(rows, map, meta) ==
  [fp \in GrpFiles |->
     IF map[fp] # 0 THEN map[fp]
     ELSE IF \E i \in 1..Len(rows) :
               rows[i].file_path = fp /\ rows[i].send_status = "SENT_OK"
       THEN meta[fp] ELSE 0]

\* iuid_to_files.setdefault(iuid, []).append(fp)
append_file(files, fp) == Append(files, fp)

RECURSIVE group_by_iuid(_, _)
\* the loop that fills iuid_to_files: [keys in insertion order, files per key]
group_by_iuid(rows, map) ==
  IF rows = <<>> THEN [keys |-> <<>>, files |-> [u \in {1, 2} |-> <<>>]]
  ELSE LET prev == group_by_iuid(SubSeq(rows, 1, Len(rows) - 1), map)
           row == rows[Len(rows)]
           iuid == map[row.file_path]
       IN IF row.send_status # "SENT_OK" \/ iuid = 0 THEN prev
          ELSE [keys |-> IF \E i \in 1..Len(prev.keys) : prev.keys[i] = iuid
                           THEN prev.keys ELSE Append(prev.keys, iuid),
                files |-> [prev.files EXCEPT ![iuid] = append_file(@, row.file_path)]]

GrpInit ==
  /\ SendInit
  /\ cfg = [toolkit |-> "dcm4che", dcm4che_send_mode |-> "MANIFEST_FILES",
            dcm4che_iuid_update_mode |-> "REALTIME"]
  /\ outcome = [f \in Files |-> "SENT_OK"]
  /\ cls = Parked /\ val = Parked /\ rid = Parked /\ art = Parked /\ req = Parked /\ shelf = Parked /\ wf = Parked /\ an = Parked /\ spl = Parked /\ hc = Parked /\ tk = Parked /\ est = Parked /\ dr = Parked /\ ra = Parked
  /\ grp \in [pc : {"start"},
              send_rows : UNION {[1..n -> GrpRows] : n \in 1..MaxGrpRows},
              map_by_file : {<<>>},
              keys : {<<>>},
              files : {<<>>},
              looked_up : {0},
              validation_results : {<<>>}]

\* read the send rows, build the map, fill it, group the SENT_OK rows by IUID
GrpStart ==
  /\ grp.pc = "start"
  /\ \E meta \in [GrpFiles -> {0, 1, 2}] :
       LET map == consistency_fill(grp.send_rows,
                                   build_iuid_map_from_send_rows(grp.send_rows), meta)
           g == group_by_iuid(grp.send_rows, map)
       IN grp' = [grp EXCEPT !.pc = "lookup", !.map_by_file = map,
                             !.keys = g.keys, !.files = g.files]
  /\ UNCHANGED grp_frame

\* one IUID of the REST loop: `for fp in files: write_csv_row(validation_results, ...)`
GrpLookup ==
  /\ grp.pc = "lookup"
  /\ grp.looked_up < Len(grp.keys)
  /\ \E status \in {"OK", "NOT_FOUND", "API_ERROR"} :
       LET iuid == grp.keys[grp.looked_up + 1]
           files == grp.files[iuid]
       IN grp' = [grp EXCEPT
                    !.looked_up = @ + 1,
                    !.validation_results = @ \o
                       [i \in 1..Len(files) |->
                          [file_path |-> files[i], sop_instance_uid |-> iuid,
                           validation_status |-> status]]]
  /\ UNCHANGED grp_frame

\* the loop is over
GrpDone ==
  /\ grp.pc = "lookup"
  /\ grp.looked_up = Len(grp.keys)
  /\ grp' = [grp EXCEPT !.pc = "done"]
  /\ UNCHANGED grp_frame

GrpNext ==
  \/ GrpStart
  \/ GrpLookup
  \/ GrpDone

SpecValidateRows == GrpInit /\ [][GrpNext]_vars

(* ============ Analyze again on a run that has been sent ================= *)
(* The Send model with one more operation: between two Sends the operator  *)
(* runs Analyze again on the same run directory and the same tree (the     *)
(* manifest it writes is the one it replaces).  The archive accepts every  *)
(* file.                                                                   *)
MaxReanalyses == 1

analyze_cleanup_with_send_artifacts ==
  {"manifest_folders.csv", "manifest_files.csv", "analysis_summary.csv", "events.csv",
   "analysis_events.csv", "send_events.csv", "send_errors.csv", "consistency_events.csv",
   "send_results_by_file.csv", "send_summary.csv", "send_checkpoint"}

\* the names run_analysis hands to cleanup_run_artifact_variants
analyze_cleanup ==
  {"manifest_folders.csv", "manifest_files.csv", "analysis_summary.csv", "events.csv",
   "analysis_events.csv", "send_events.csv", "send_errors.csv", "consistency_events.csv"}

ReanalyzeInit ==
  /\ SendInit
  /\ outcome = [f \in Files |-> "SENT_OK"]
  /\ cls = Parked /\ val = Parked /\ rid = Parked /\ art = Parked /\ req = Parked /\ shelf = Parked /\ wf = Parked /\ an = Parked /\ spl = Parked /\ hc = Parked /\ tk = Parked /\ est = Parked /\ dr = Parked /\ grp = Parked
  /\ ra = [pc |-> "on", count |-> 0, inv_at |-> 0, before |-> <<>>]

\* run_analysis on the existing run while no worker runs
Reanalyze ==
  /\ pc = "idle"
  /\ inv > 0
  /\ ra.count < MaxReanalyses
  /\ ra' = [ra EXCEPT !.count = @ + 1, !.inv_at = inv,
                      !.before = <<results, send_summary, checkpoint>>]
  /\ events_skip' = IF "events.csv" \in analyze_cleanup THEN 0 ELSE events_skip
  /\ results' = IF "send_results_by_file.csv" \in analyze_cleanup THEN <<>> ELSE results
  /\ send_summary' = IF "send_summary.csv" \in analyze_cleanup THEN <<>> ELSE send_summary
  /\ checkpoint' = IF "send_checkpoint" \in analyze_cleanup THEN NoCheckpoint ELSE checkpoint
  /\ UNCHANGED <<cfg, outcome, cancel_event, pc, inv, hist, plan_vars, item_cursor,
                 unit_cursor, counters, interrupted, chunk_vars, child, watcher,
                 cancel_watcher_stop, ckpt_written, chunk_start, cancel_observed>>
  /\ UNCHANGED <<cls, val, rid, art, req, shelf, wf, an, spl, hc, tk, est, dr, grp>>

ReanalyzeNext ==
  \/ Next
  \/ Reanalyze

SpecReanalyze == ReanalyzeInit /\ [][ReanalyzeNext]_vars

(* ======================= properties of the Send stage ================== *)
CompletedStatuses == {"PASS", "PASS_WITH_WARNINGS", "FAIL"}
AlreadyStatuses == {"ALREADY_SENT", "ALREADY_SENT_PASS"}

RowIndexes(f) == {i \in 1..Len(results) : results[i].file_path = f}
RowIndexesOfInv(f, n) == {i \in RowIndexes(f) : results[i].inv = n}
RowsOfInv(n) == {i \in 1..Len(results) : results[i].inv = n}
LastEnded == hist[Len(hist)]
Ended == pc = "idle" /\ hist # <<>>
JustSpawned == pc = "drain" /\ line_pos = 0

\* C1: within one Send invocation every selected file gets at most one result
\* row, and an invocation that starts without prior progress and ends without
\* cancellation has appended exactly one row for every selected file.
C1_OneRowPerInvocation ==
  /\ \A f \in Files : Cardinality(RowIndexesOfInv(f, inv)) <= 1
  /\ (Ended /\ ~LastEnded.resuming /\ LastEnded.status \in CompletedStatuses)
       => \A f \in Files : Cardinality(RowIndexesOfInv(f, inv)) = 1

\* a fresh dcm4che REALTIME send that finished with rows from both passes
C1_Witness ==
  /\ Ended /\ Len(hist) = 1 /\ LastEnded.status = "PASS_WITH_WARNINGS"
  /\ realtime_iuid_enabled
  /\ Len(results) = NFiles
  /\ \E f \in Files : outcome[f] = "SENT_OK"

\* C2: file-unit mode: the results file never holds two rows of one file
\* whatever the cancels and crashes, a resumed invocation never spawns a child
\* on a file that already has a row, a cancelled fresh send leaves
\* done_files = number of rows written (k), and the resume that follows
\* appends exactly N - k rows.
C2_FileModeResume ==
  send_unit_is_file_mode =>
    /\ \A f \in Files : Cardinality(RowIndexes(f)) <= 1
    /\ JustSpawned => \A f \in Range(batch_files) : RowIndexes(f) = {}
    /\ (Ended /\ ~LastEnded.resuming /\ LastEnded.status = "INTERRUPTED")
         => LoadedDoneFiles = Len(results)
    /\ \A n \in 1..(Len(hist) - 1) :
         (/\ pc = "idle"
          /\ ~hist[n].resuming /\ hist[n].status = "INTERRUPTED"
          /\ hist[n + 1].status \in CompletedStatuses \cup AlreadyStatuses)
         => Cardinality(RowsOfInv(n + 1)) = NFiles - Cardinality(RowsOfInv(n))

\* a dcmtk send cancelled after its first row and then resumed to the end
C2_Witness ==
  /\ cfg.toolkit = "dcmtk"
  /\ Ended /\ Len(hist) = 2
  /\ hist[1].status = "INTERRUPTED" /\ hist[2].status \in CompletedStatuses
  /\ Cardinality(RowsOfInv(1)) = 1
  /\ Cardinality(RowsOfInv(2)) = NFiles - 1

\* C3: folder-unit mode: after a Send cancelled inside a sub-chunk and a
\* resume that completes, no recorded file was handed to the child again and
\* every selected file has exactly one row.
C3_FolderModeResume ==
  (/\ ~send_unit_is_file_mode
   /\ Len(hist) >= 1
   /\ hist[1].status = "INTERRUPTED" /\ hist[1].cancel = "chunk")
  => /\ (inv = 2 /\ JustSpawned) => \A f \in Range(batch_files) : RowIndexes(f) = {}
     /\ (Ended /\ Len(hist) = 2 /\ hist[2].status \in CompletedStatuses)
          => \A f \in Files : Cardinality(RowIndexes(f)) = 1

\* C4: the checkpoints written by one invocation never decrease in done_files
\* nor in done_units.
C4_CheckpointMonotone ==
  [][(ckpt_written /\ ckpt_written' /\ checkpoint' # checkpoint)
       => /\ checkpoint'.done_files >= checkpoint.done_files
          /\ checkpoint'.done_units >= checkpoint.done_units]_vars

\* a folder-mode invocation that wrote a per-item checkpoint for every file
\* and synced its last sub-chunk
C4_Witness ==
  /\ ~send_unit_is_file_mode
  /\ inv = 1 /\ ckpt_written
  /\ checkpoint.exists /\ checkpoint.checkpoint_reason = "CHUNK_SYNC"
  /\ checkpoint.done_files = NFiles
  /\ checkpoint.done_units = Len(ordered_folders)

\* what an uninterrupted Send of the run ends with: every answered file gets
\* the status of its response, every other file SENT_UNKNOWN
ExpectedCounts ==
  [sent_ok |-> Cardinality({f \in Files : outcome[f] = "SENT_OK"}),
   warned  |-> Cardinality({f \in Files : outcome[f] = "SENT_UNKNOWN"}),
   failed  |-> Cardinality({f \in Files : outcome[f] = "SEND_FAIL"})]
ExpectedStatus ==
  IF ExpectedCounts.failed > 0 THEN "FAIL"
  ELSE IF ExpectedCounts.warned > 0 THEN "PASS_WITH_WARNINGS"
  ELSE "PASS"
LastSummary == send_summary[Len(send_summary)]

\* C5: a Send cancelled at any point and then resumed ends with the counts and
\* the final status of the uninterrupted Send of the same run.
C5_ResumeEquivalence ==
  (/\ Ended /\ Len(hist) = 2
   /\ hist[1].status = "INTERRUPTED"
   /\ hist[2].status \in CompletedStatuses \cup AlreadyStatuses)
  => /\ hist[2].status = ExpectedStatus
     /\ send_summary # <<>>
     /\ LastSummary.status = ExpectedStatus
     /\ LastSummary.sent_ok = ExpectedCounts.sent_ok
     /\ LastSummary.warnings = ExpectedCounts.warned
     /\ LastSummary.failed = ExpectedCounts.failed

\* the sub-chunk that was synced last, its rows and their statuses
SyncedChunk == prepared_chunks[chunk_pos - 1]
SyncedRows(f) ==
  {i \in RowIndexesOfInv(f, inv) : results[i].chunk_no = chunk_index - 1}
SyncedWith(S) ==
  Cardinality({f \in Range(SyncedChunk.files) :
                 \E i \in SyncedRows(f) : results[i].send_status \in S})

\* C6: when a sub-chunk has completed, each of its files has exactly one row
\* of that sub-chunk, item_cursor grew by the number of its files, and each
\* file was counted in exactly one of sent_ok / warned / failed.
C6_OneRowPerFileOfSubChunk ==
  (pc = "loop" /\ chunk_pos > 1) =>
    /\ \A f \in Range(SyncedChunk.files) : Cardinality(SyncedRows(f)) = 1
    /\ item_cursor - chunk_start.item_cursor = Len(SyncedChunk.files)
    /\ counters.sent_ok - chunk_start.counters.sent_ok = SyncedWith({"SENT_OK"})
    /\ counters.warned - chunk_start.counters.warned = SyncedWith(warning_statuses)
    /\ counters.failed - chunk_start.counters.failed = SyncedWith({"SEND_FAIL"})

\* a dcm4che REALTIME sub-chunk of two files: one row written in real time
\* (SENT_OK), the other by the post-stream pass (SENT_UNKNOWN)
C6_Witness ==
  /\ pc = "loop" /\ chunk_pos > 1 /\ realtime_iuid_enabled
  /\ Len(SyncedChunk.files) = 2
  /\ SyncedWith({"SENT_OK"}) = 1
  /\ SyncedWith({"SENT_UNKNOWN"}) = 1

\* C7: once an invocation has read the cancel flag as set (chunk boundary,
\* stdout line or watcher) it spawns no further sub-chunk, and it ends with
\* an INTERRUPTED summary row and the status INTERRUPTED.
C7_CancelGivesInterrupted ==
  /\ [][cancel_observed # "" => ~(pc = "loop" /\ pc' = "drain")]_vars
  /\ [](( /\ Ended /\ LastEnded.cancel # "" /\ LastEnded.status # "CRASHED")
         => /\ LastEnded.status = "INTERRUPTED"
            /\ send_summary # <<>>
            /\ LastSummary.status = "INTERRUPTED")

FilesWithRow == {f \in Files : RowIndexes(f) # {}}

\* C8: the checkpoint never counts more files than have a row in the results.
C8_RowsBeforeCheckpoint ==
  checkpoint.done_files <= Cardinality(FilesWithRow)

LastStatusOf(f) ==
  results[CHOOSE i \in RowIndexes(f) : \A j \in RowIndexes(f) : j <= i].send_status
LastWarned == {f \in FilesWithRow : LastStatusOf(f) \in warning_statuses}
LastFailed == {f \in FilesWithRow : LastStatusOf(f) \notin warning_statuses \cup {"SENT_OK"}}

NothingPending ==
  IF send_unit_is_file_mode THEN FilesWithRow = Files
  ELSE checkpoint.exists /\ checkpoint.done_units >= Len(ordered_folders)

ClsPayload == {f \in ClsFiles : looks_like_dicom_payload_file(cls.files[f])}
ClsNoResponse == ok_iuid_set(cls.lines) \cup err_iuid_set(cls.lines) = {}

\* C12: when the IUIDs acknowledged with 0H are exactly the IUIDs of the
\* payload-looking files of the batch, every payload-looking file is SENT_OK
\* and every other file is SENT_UNKNOWN with a non-empty status_detail,
\* whatever the exit code, the request order and the IUID update mode.
C12_CorrelationCorrectness ==
  (cls.pc = "done" /\ ok_iuid_set(cls.lines) = ClsPayload) =>
    \A f \in ClsFiles :
      IF f \in ClsPayload
        THEN cls.rows[f].send_status = "SENT_OK"
        ELSE /\ cls.rows[f].send_status = "SENT_UNKNOWN"
             /\ cls.rows[f].status_detail # ""

ClsSuffix(f) == IF f \in cls.realtime THEN "_REALTIME" ELSE ""

C14_ExitFailEvenIfRequested ==
  (cls.pc = "done" /\ cls.exit_code # 0 /\ ClsNoResponse) =>
    /\ \A f \in ClsFiles :
         /\ cls.rows[f].send_status = "SEND_FAIL"
         /\ cls.rows[f].extract_status = "PROCESS_EXIT_FAIL"
    /\ cls.status = "FAIL"

\* C14 amended: after a non-zero exit without any C-STORE-RSP line a file
\* whose correlated IUID was seen in a request is SENT_UNKNOWN /
\* REQUESTED_NO_RSP, every other file is SEND_FAIL / PROCESS_EXIT_FAIL, and
\* the summary status is FAIL exactly when some file is SEND_FAIL.
C14_ExitFailUnlessRequested ==
  (cls.pc = "done" /\ cls.exit_code # 0 /\ ClsNoResponse) =>
    /\ \A f \in ClsFiles :
         IF cls.rows[f].sop_instance_uid \in rq_iuid_set(cls.lines)
           THEN /\ cls.rows[f].send_status = "SENT_UNKNOWN"
                /\ cls.rows[f].extract_status = "REQUESTED_NO_RSP"
           ELSE /\ cls.rows[f].send_status = "SEND_FAIL"
                /\ cls.rows[f].extract_status = "PROCESS_EXIT_FAIL"
    /\ cls.status = "FAIL" <=> \E f \in ClsFiles : cls.rows[f].send_status = "SEND_FAIL"
    /\ cls.status \in {"FAIL", "PASS_WITH_WARNINGS"}

\* exit code 2, no response line: one file only requested, the other not
\* even requested
C14_Witness ==
  /\ cls.pc = "done" /\ cls.exit_code = 2 /\ ClsNoResponse
  /\ \E f \in ClsFiles : cls.rows[f].extract_status = "REQUESTED_NO_RSP"
  /\ \E f \in ClsFiles : cls.rows[f].extract_status = "PROCESS_EXIT_FAIL"

(* ------------------------ properties of Validate ----------------------- *)
ValUniqueIuids ==
  {val.map_by_file[fp] :
     fp \in {r \in ValRows : val.send_rows[r].send_status = "SENT_OK"}} \ {0}

\* C15: the reconciliation final status is PASS when every queried IUID is
\* OK, FAIL when every query errored (API_ERROR) and none is OK, and
\* PASS_WITH_WARNINGS in every mixed case, a mix of API_ERROR and NOT_FOUND
\* with no OK included (stated for runs without SEND_FAIL rows).
C15_ReconciliationVerdict ==
  (val.pc = "done" /\ val.recon.send_failed_files = 0) =>
     LET n == val.recon.total_iuid_unique
     IN val.recon.final_status =
          IF val.recon.iuid_ok = n THEN "PASS"
          ELSE IF val.recon.iuid_api_error = n THEN "FAIL"
          ELSE "PASS_WITH_WARNINGS"

\* what the archive's reply means for the queried IUID, for the replies the
\* contract names
ValExpected(reply) ==
  IF reply.raised = "" /\ reply.code = "200" /\ reply.body = "LIST" THEN {"OK"}
  ELSE IF reply.raised = "HTTPError" \/ reply.body = "EMPTY_LIST" THEN {"NOT_FOUND"}
  ELSE IF reply.raised \in {"timeout", "URLError"} THEN {"API_ERROR"}
  ELSE {"OK", "NOT_FOUND", "API_ERROR"}

\* C16: each unique IUID of the SENT_OK rows is recorded OK on HTTP 200 with a
\* non-empty list, NOT_FOUND on an HTTP error status or an empty list,
\* API_ERROR on a timeout or transport error; no outcome stops the remaining
\* lookups; iuid_ok + iuid_not_found + iuid_api_error is the number of unique
\* IUIDs queried.
C16_LookupOutcomes ==
  /\ val.pc \in {"lookup", "cancelled", "done"} =>
       /\ \A i \in 1..Len(val.replies) :
            LET u == val.iuid_to_files[i]
                rows == {r \in val.validation_results : r.sop_instance_uid = u}
            IN /\ {r.file_path : r \in rows} =
                    files_of_iuid(val.send_rows, val.map_by_file, u)
               /\ rows # {}
               /\ \A r \in rows : r.validation_status \in ValExpected(val.replies[i])
       /\ val.ok_count + val.miss_count + val.api_err_count = Len(val.replies)
       /\ {val.iuid_to_files[i] : i \in 1..Len(val.iuid_to_files)} = ValUniqueIuids
       /\ Len(val.iuid_to_files) = Cardinality(ValUniqueIuids)
  /\ val.pc = "done" =>
       /\ Len(val.replies) = Cardinality(ValUniqueIuids)
       /\ val.recon.iuid_ok + val.recon.iuid_not_found + val.recon.iuid_api_error
            = Cardinality(ValUniqueIuids)
       /\ val.recon.total_iuid_unique = Cardinality(ValUniqueIuids)

\* a timeout on the first IUID, then a hit on the last one
C16_Witness ==
  /\ val.pc = "done"
  /\ Len(val.replies) = Cardinality(ValIuids)
  /\ val.replies[1].raised = "timeout"
  /\ val.replies[Len(val.replies)].body = "LIST"
  /\ val.recon.iuid_api_error = 1
  /\ val.recon.iuid_ok = 1

(* ------------------- properties of run id normalization ---------------- *)
\* C17: normalizing a run id is idempotent for a given driver and mode:
\* normalize(normalize(x, d, m), d, m) = normalize(x, d, m) for every
\* non-empty raw id, ids with known suffixes or trailing underscores included.
C17_NormalizeIdempotent ==
  rid.pc = "again" => rid.again = rid.run

(* --------------------- properties of the artifact resolver ------------- *)
\* C18: for every artifact name, a read that follows a write-resolve that
\* returned the categorized path returns that categorized path; and a read
\* made while only the legacy-flat file exists returns the legacy path.
C18_ResolverMonotonic ==
  art.pc = "on" =>
    \A n \in ArtNames :
      /\ art.read_after_write[n] = run_artifact_variants(n).categorized_path
           => art.read_gave[n] = run_artifact_variants(n).categorized_path
      /\ art.read_saw[n] = {"read", "legacy"}
           => art.read_gave[n] = run_artifact_variants(n).legacy_path

(* --------------------- properties of request validation ---------------- *)
ReqInvalid ==
  \/ req.batch_size < 1
  \/ req.op = "send" /\ req.run_id = ""
  \/ req.op = "send" /\ "manifest_files.csv" \notin req.fs_before

\* C20: an invalid request (Analyze or Send with batch_size < 1, Send with an
\* empty run_id, Send on a run without manifest) raises to the caller and
\* leaves the file system as it was: nothing created, deleted or modified.
C20_InvalidRequestNoEffect ==
  (req.pc \in {"returned", "raised"} /\ ReqInvalid) =>
     /\ req.pc = "raised"
     /\ req.fs = req.fs_before

(* ------------------ properties of a Send after a driver switch --------- *)
\* C19: the first Send after a switch to another driver or mode is not
\* influenced by the progress recorded before the switch: it is not treated
\* as a resume (done_units = done_files = 0 at entry) and, when it runs to
\* its summary, it has sent every selected file itself.
C19_DriverSwitchStartsFresh ==
  (shelf.pc = "on" /\ shelf.switched_at > 0 /\ inv = shelf.switched_at + 1) =>
     /\ ~is_resuming
     /\ (pc = "idle" /\ hist[Len(hist)].status # "CRASHED"
         /\ hist[Len(hist)].status # "INTERRUPTED") =>
          \A f \in Files :
            \E i \in 1..Len(results) :
              results[i].file_path = f /\ results[i].inv = inv

(* ----------------- properties of cancellation outcomes ----------------- *)
\* C21: in every workflow an observed cancellation ends the call with an
\* outcome of its own kind (WorkflowCancelled, or the INTERRUPTED status),
\* never with the error kind of an ordinary failure of that workflow.
C21_CancelIsDistinct ==
  (wf.pc = "ended" /\ wf.cause = "cancel") =>
     /\ wf.end.raised # on_failure(wf.workflow).raised
     /\ wf.queue # ui_event(wf.workflow, on_failure(wf.workflow))
\* the selection the specification prescribes for one manifest row
AnExpected(c, r) ==
  LET allowed == parse_extensions(c.allowed_extensions)
  IN IF c.toolkit = "dcm4che" /\ c.dcm4che_send_mode = "FOLDERS"
       THEN r.selected_for_send = 1 /\ r.selection_reason = "INCLUDED_ALL_FILES"
     ELSE IF ~ c.restrict_extensions
       THEN r.selected_for_send = 1 /\ r.selection_reason = "INCLUDED_ALL_FILES"
     ELSE IF r.extension \in allowed
       THEN r.selected_for_send = 1 /\ r.selection_reason = "INCLUDED_EXT"
     ELSE IF r.extension = "" /\ c.include_no_extension
       THEN r.selected_for_send = 1 /\ r.selection_reason = "INCLUDED_NO_EXT"
     ELSE r.selected_for_send = 0 /\ r.selection_reason = "EXCLUDED_EXTENSION"

\* C22: every manifest row carries the selection of the predicate (ToolF folder
\* mode includes every file; otherwise the extension restriction decides), and
\* the summary has files_total = files_selected_for_send + files_excluded.
C22_SelectionPredicate ==
  an.pc # "off" =>
    /\ \A i \in 1..Len(an.rows) : AnExpected(an.cfg, an.rows[i])
    /\ an.total_files = an.selected_files + an.excluded_files
    /\ an.pc = "done" =>
         /\ an.summary.files_total = Len(an.rows)
         /\ an.summary.files_total =
              an.summary.files_selected_for_send + an.summary.files_excluded
         /\ an.summary.files_selected_for_send =
              Cardinality({i \in 1..Len(an.rows) : an.rows[i].selected_for_send = 1})

\* a ToolF folder-mode scan with the restriction switched on wrote its summary
\* after a file that the restriction alone would have excluded
C22_Witness ==
  /\ an.pc = "done"
  /\ an.cfg.toolkit = "dcm4che" /\ an.cfg.dcm4che_send_mode = "FOLDERS"
  /\ an.cfg.restrict_extensions
  /\ \E i \in 1..Len(an.rows) :
       /\ an.rows[i].extension = ".txt"
       /\ ".txt" \notin an.cfg.allowed_extensions
\* C23: a sub-chunk whose child was force-killed on cancellation is abandoned
\* in every interleaving of the cancel watcher and the drain loop: the
\* post-stream reconciliation never starts for it, so no row comes from it.
C23_KilledChunkAbandoned ==
  [][(pc = "join" /\ child = "killed") => pc' # "post"]_vars
\* C24: every line read from the child's stdout is appended, as read, to the
\* sub-chunk's collected lines (the same step writes it to
\* storescu_execucao.log), the line in hand when cancel is first seen included.
C24_EveryLineCollected ==
  [][line_pos' = line_pos + 1 =>
       lines' = Append(lines, ChildOutput(batch_files)[line_pos + 1])]_vars
\* prior progress as the claim reads it: the checkpoint of the current driver
\* and mode counts a unit or a file, or a selected file already has a row
PriorProgress ==
  \/ LoadedDoneUnits > 0
  \/ LoadedDoneFiles > 0
  \/ \E f \in Range(selected) : RowIndexes(f) # {}

\* C25: a Send that starts with prior progress deletes neither
\* send_results_by_file.csv nor send_summary.csv, in file-unit and in
\* folder-unit mode alike.
C25_ProgressIsPreserved ==
  [][(inv' = inv + 1 /\ PriorProgress) =>
       (results' = results /\ send_summary' = send_summary)]_vars
\* C26: the checkpoint written at the end of a completed sub-chunk has
\* checkpoint_mode CHUNK_SYNC and done_units advanced by the sub-chunk's
\* units; a per-item checkpoint has checkpoint_mode ITEM; in folder mode
\* done_units changes only at sub-chunk ends; in file mode every checkpoint
\* written has done_units = done_files.
C26_ChunkSyncCheckpoint ==
  [][/\ (pc = "post" /\ pc' = "loop") =>
          /\ checkpoint'.exists
          /\ checkpoint'.checkpoint_mode = "CHUNK_SYNC"
          /\ checkpoint'.done_units =
               (IF send_unit_is_file_mode THEN chunk_start.item_cursor
                                          ELSE unit_cursor) + Len(batch_inputs)
     /\ (pc \in {"rt_ckpt", "post_ckpt"} /\ checkpoint' # checkpoint) =>
          checkpoint'.checkpoint_mode = "ITEM"
     /\ (~send_unit_is_file_mode /\ checkpoint'.done_units # checkpoint.done_units) =>
          (pc = "post" /\ pc' = "loop")
     /\ (send_unit_is_file_mode /\ checkpoint' # checkpoint) =>
          checkpoint'.done_units = checkpoint'.done_files]_vars
\* C27: the sub-batches returned by the command-length split concatenate, in
\* order, to the input batch; none is empty; one with more than one unit has a
\* command length within the budget; one over the budget has exactly one unit.
C27_SplitIsPartition ==
  spl.pc = "returned" =>
    /\ Flatten(spl.split_batches) = spl.batch_inputs
    /\ \A i \in 1..Len(spl.split_batches) :
         LET sub == spl.split_batches[i] IN
           /\ sub # <<>>
           /\ Len(sub) > 1 => command_line_len(sub) <= spl.budget
           /\ command_line_len(sub) > spl.budget => Len(sub) = 1

\* a batch was split into a sub-batch of several units within the budget and a
\* sub-batch of one unit that alone exceeds the budget
C27_Witness ==
  /\ spl.pc = "returned"
  /\ \E i, j \in 1..Len(spl.split_batches) :
       /\ Len(spl.split_batches[i]) > 1
       /\ command_line_len(spl.split_batches[j]) > spl.budget
\* the ToolF pre-flight of this Send cannot pass
HcUnhealthy ==
  /\ hc.toolkit = "dcm4che"
  /\ \/ ~hc.java_usable
     \/ ~hc.lib.exists
     \/ \E marker \in DCM4CHE_CRITICAL_JAR_MARKERS :
          \A jar \in hc.lib.jars : ~marker_in(marker, jar)

\* C28: a ToolF Send with no usable Java or with a critical jar marker
\* missing ends in failure before its first sub-chunk: no child is spawned and
\* no result row, checkpoint or summary row is written.
C28_UnhealthyToolFNeverSends ==
  (hc.pc # "off" /\ HcUnhealthy) =>
    /\ ~hc.spawned
    /\ hc.rows_written = 0
    /\ ~hc.checkpoint_written
    /\ hc.summary_written = 0
    /\ hc.pc \notin {"loop", "chunk", "summary"}
    /\ hc.pc = "ended" => hc.raised # ""

\* a Send with a usable Java whose lib/ lacks dcm4che-core has failed at the
\* health-check
C28_Witness ==
  /\ hc.pc = "ended"
  /\ hc.java_usable /\ hc.lib.exists
  /\ hc.lib.jars = LibJars \ {"dcm4che-core-5.jar"}
  /\ hc.raised = "healthcheck_fail"
ClsSeen ==
  ok_iuid_set(cls.lines) \cup err_iuid_set(cls.lines) \cup rq_iuid_set(cls.lines)

\* the send_status that the evidence for IUID u implies
ClsImplied(u) ==
  IF u \in ok_iuid_set(cls.lines) THEN "SENT_OK"
  ELSE IF u \in err_iuid_set(cls.lines) THEN "SEND_FAIL"
  ELSE "SENT_UNKNOWN"

\* C29: a file whose metadata IUID is in the request, acknowledged or rejected
\* set gets a row with that IUID and the status its evidence implies, whatever
\* the order of the requests and the IUID update mode; a row carries an IUID
\* inferred from the request order only when neither the metadata IUID nor a
\* file-name IUID of the file was found in the sets.
C29_MetadataIuidWins ==
  cls.pc = "done" =>
    \A f \in ClsFiles :
      LET r == cls.rows[f]
          meta == extract_metadata(cls.files, f)
          name == IF cls.files[f].kind = "UIDNAME" THEN f ELSE 0
      IN /\ (meta # 0 /\ meta \in ClsSeen) =>
              /\ r.sop_instance_uid = meta
              /\ r.send_status = ClsImplied(meta)
         /\ (r.sop_instance_uid \notin {0, meta, name}) =>
              /\ ~(meta # 0 /\ meta \in ClsSeen)
              /\ ~(name # 0 /\ name \in ClsSeen)

\* C30: with exit code 0 a file whose IUID matches none of the sets is
\* SENT_UNKNOWN, with extract_status NO_MATCH when its file name is a
\* dotted-numeric IUID and NO_MATCH_UID_UNCONFIRMED when there is no IUID
\* evidence for it at all.
C30_NoMatchKinds ==
  (cls.pc = "done" /\ cls.exit_code = 0) =>
    \A f \in ClsFiles \ cls.realtime :
      LET r == cls.rows[f]
          meta == extract_metadata(cls.files, f)
          inferred == inferred_iuid_by_file(cls.files, cls.lines, f)
      IN /\ (meta = 0 /\ cls.files[f].kind = "UIDNAME" /\ f \notin ClsSeen /\ inferred = 0) =>
              /\ r.send_status = "SENT_UNKNOWN"
              /\ r.extract_status = "NO_MATCH"
         /\ (meta = 0 /\ cls.files[f].kind # "UIDNAME" /\ inferred = 0) =>
              /\ r.send_status = "SENT_UNKNOWN"
              /\ r.extract_status = "NO_MATCH_UID_UNCONFIRMED"
\* C31: for the same files and the same child output the REALTIME mode
\* (real-time pass, then post-stream pass for the remaining files) writes for
\* every file the send_status and the sop_instance_uid that the CHUNK_END mode
\* (post-stream pass over all files) writes.
C31_ModesAgree ==
  (cls.pc = "done" /\ cls.iuid_mode = "REALTIME") =>
    \A f \in ClsFiles :
      LET chunk_end == PostStreamClassify(cls.files, cls.lines, cls.exit_code, f)
      IN /\ cls.rows[f].send_status = chunk_end.send_status
         /\ cls.rows[f].sop_instance_uid = chunk_end.sop_instance_uid
TkMentioned(f) ==
  \E i \in 1..Len(tk.lines) : tk.lines[i].file = f

\* the file of the most recent "Sending file" line before line i, 0 when none
TkSendingBefore(i) ==
  LET S == {j \in 1..(i - 1) : tk.lines[j].kind = "SENDING"}
  IN IF S = {} THEN 0 ELSE tk.lines[CHOOSE j \in S : \A k \in S : k <= j].file

\* f is named by no line and no store response falls to it
TkUntouched(f) ==
  /\ ~TkMentioned(f)
  /\ \A i \in 1..Len(tk.lines) : tk.lines[i].kind = "RSP" => TkSendingBefore(i) # f

EstArgfile == est.is_windows /\ est.dcm4che_prefer_java_direct

\* C33: for ToolF without the argfile mechanism Analyze reports batch_max_cmd =
\* floor((budget - base_command_length) / (1 + unit_max_arg_len)), the budget
\* being the shell budget when the shell wrapper is used and the direct budget
\* otherwise; with the argfile mechanism it is the number of units; for ToolT
\* it is N/A.  (Stated for an analysis that selected at least one unit.)
C33_BatchMaxCmd ==
  (est.pc = "done" /\ est.units # <<>>) =>
    IF est.toolkit # "dcm4che"
      THEN est.batch_max_cmd = "" /\ est.batch_max_cmd_source = "N/A"
    ELSE IF EstArgfile
      THEN est.batch_max_cmd = Len(est.units)
    ELSE
      LET budget == IF est.dcm4che_use_shell_wrapper
                      THEN CmdSafeMaxChars ELSE DirectSafeMaxChars
      IN est.batch_max_cmd =
           (budget - base_len(est)) \div (1 + max_arg_len(est.units))
\* C34: on every exit path of a sub-chunk's drain (end of output, cancel
\* break, exception) the stop event is set, the watcher was joined with the
\* bounded wait, the reference to the current process is cleared and the raw
\* log is closed; after Send returns the process reference is empty.
C34_DrainReleases ==
  /\ (dr.pc \in {"post", "loop", "returned"} /\ dr.chunk > 0) =>
       /\ dr.cancel_watcher_stop
       /\ dr.joined \in {"returned", "timeout"}
       /\ dr.current_proc = "none"
       /\ dr.lf = "closed"
  /\ dr.pc = "returned" => (dr.current_proc = "none" /\ dr.lf = "closed")

\* C34 witness: a drain left by an exception while the watcher was inside the
\* tree-kill: the join timed out, and Send raised with everything released.
C34_Witness ==
  /\ dr.pc = "returned"
  /\ dr.result = "raised"
  /\ dr.exit = "exception"
  /\ dr.joined = "timeout"
  /\ dr.current_proc = "none"
  /\ dr.lf = "closed"

DrWatcherAlive == dr.watcher \in {"poll", "kill_done"}

C40_PassCoversSentOk ==
  (val.pc = "done" /\ val.recon.final_status = "PASS") =>
    \A fp \in ValRows :
      val.send_rows[fp].send_status = "SENT_OK" =>
        \E r \in val.validation_results :
          r.file_path = fp /\ r.validation_status = "OK"
GrpSentOk(fp) ==
  \E i \in 1..Len(grp.send_rows) :
    grp.send_rows[i].file_path = fp /\ grp.send_rows[i].send_status = "SENT_OK"

\* C36: validation_results.csv of one Validate run has exactly one row per
\* (file_path, IUID) pair of the run's SENT_OK files, and no pair twice, also
\* when the send file holds several rows of the same file.
C36_OneRowPerPair ==
  grp.pc = "done" =>
    /\ \A i, j \in 1..Len(grp.validation_results) :
         (/\ grp.validation_results[i].file_path = grp.validation_results[j].file_path
          /\ grp.validation_results[i].sop_instance_uid
               = grp.validation_results[j].sop_instance_uid) => i = j
    /\ \A fp \in GrpFiles :
         (GrpSentOk(fp) /\ grp.map_by_file[fp] # 0) =>
           \E i \in 1..Len(grp.validation_results) :
             /\ grp.validation_results[i].file_path = fp
             /\ grp.validation_results[i].sop_instance_uid = grp.map_by_file[fp]
\* C37: in every checkpoint a Send writes, and at every progress callback,
\* done_files (items_done) is at most the number of selected manifest files,
\* in file-unit and in folder-unit mode, on fresh runs and on resumes.
C37_DoneFilesWithinSelected ==
  /\ checkpoint.exists => checkpoint.done_files <= total_items
  /\ item_cursor <= total_items
\* C38: for ToolF every SENT_OK row carries a non-empty sop_instance_uid that
\* the output of the row's own sub-chunk acknowledges with status 0H.
C38_SentOkAcknowledged ==
  \A f \in ClsFiles :
    cls.pc # "off" /\ cls.rows[f].send_status = "SENT_OK" =>
      /\ cls.rows[f].sop_instance_uid # 0
      /\ cls.rows[f].sop_instance_uid \in ok_iuid_set(cls.lines)
\* C38 witness: a finished sub-chunk with a SENT_OK row of a file whose IUID
\* dcmdump could not read: the row's IUID is the acknowledged one.
C38_Witness ==
  /\ cls.pc = "done"
  /\ \E f \in ClsFiles :
       /\ ~cls.files[f].meta
       /\ cls.rows[f].send_status = "SENT_OK"
       /\ cls.rows[f].sop_instance_uid \in ok_iuid_set(cls.lines)
  /\ \E f \in ClsFiles : cls.rows[f].send_status # "SENT_OK"
\* C39: Analyze run again on an existing run clears events.csv and leaves
\* send_results_by_file.csv, send_summary.csv and the send checkpoint as they
\* were, so the Send that follows finds the artifacts of the Sends before the
\* re-analysis and takes its progress from them.
C39_ReanalyzeKeepsSendProgress ==
  [][/\ (ra.count' # ra.count) =>
          /\ results' = results
          /\ send_summary' = send_summary
          /\ checkpoint' = checkpoint
          /\ events_skip' = 0
     /\ (inv' # inv /\ ra.count > 0 /\ ra.inv_at = inv) =>
          /\ <<results, send_summary, checkpoint>> = ra.before
          /\ is_resuming' = EntryIsResuming
          /\ item_cursor' = IF pc' = "idle" THEN 0 ELSE EntryDoneFiles]_vars

\* C39 witness: a Send was interrupted, Analyze ran again, and the next Send
\* resumed from the rows and the checkpoint of the first one.
C39_Witness ==
  /\ ra.pc = "on"
  /\ ra.count = 1
  /\ ra.inv_at = 1
  /\ inv = 2
  /\ pc = "loop"
  /\ is_resuming
  /\ ra.before[1] # <<>>
  /\ results = ra.before[1]
  /\ item_cursor > 0

====
